---- MODULE Spec2Model ----
(***************************************************************************)
(* Model of minitap/mobile_use: the task lifecycle of sdk/agent.py (one    *)
(* Agent, several concurrent run_task callers, stop_current_task) and the  *)
(* agent graph of graph/graph.py executed in supersteps.                   *)
(***************************************************************************)
EXTENDS Integers, Sequences, FiniteSets, TLC

(* ---------------------------------------------------------------------- *)
(* Bounds                                                                  *)
(* ---------------------------------------------------------------------- *)
\* concurrent calls of Agent.run_task on one Agent; a call that returned may be
\* made again, with a new Task
NCallers == 3
\* supersteps one graph run commits in the lifecycle model
MaxChunks == 1

\* longest plan a Planner response holds
MaxPlan == 2
\* largest max_steps (recursion_limit) of a task request
MaxSteps == 11

\* longest text given to input_text
MaxText == 3
\* largest device width and height
MaxDim == 3
\* largest percentage of a PercentagesSelectorRequest
MaxPercent == 100
\* most elements in one list of a UI hierarchy
MaxElems == 2
\* websocket clients of the control backend
MaxClients == 2
\* most screen-update tasks created
MaxLoops == 2

Callers == 1..NCallers
NoTask == 0

VARIABLES
    \* ---- sdk/agent.py : Agent ----
    cloud,          \* self._config.cloud_mobile_id_or_ref is set
    task_lock,      \* self._task_lock: the caller holding it, or NoTask
    current_task,   \* self._current_task: a task id, or NoTask (None)
    cpc,            \* position of each run_task caller
    cres,           \* what run_task gave its caller: none / ok / err / cancelled
    tpc,            \* position of each task coroutine (its current await)
    tres,           \* result of the finished asyncio task
    must_cancel,    \* a cancellation request is pending delivery to the task
    exc,            \* the outcome pending while the handlers and finally run
    snapshot,       \* last_state_snapshot: 0 is None, k the k-th values chunk
    output,         \* output: 0 is None, 1 an extracted value
    structured,     \* the requests' output_config asks for a structured output
    extract_failed, \* the Outputter call or the validation of its result failed
    gstep,          \* supersteps the graph runtime committed (values chunks)
    partial,        \* an updates chunk of the uncommitted superstep was streamed
    graph_started,  \* the task entered the graph's astream
    fin_count,      \* number of Task.finalize invocations
    fin_last,       \* arguments of the last Task.finalize invocation
    overlap,        \* the task in flight when the caller invoked run_task
    missed,         \* that task settled without any cancellation request sent
    run_cancel,     \* run_task sent the task a cancellation request
    stop_sent,      \* stop_current_task sent the task a cancellation request
    tasks,          \* self._tasks: status of the Task the caller's last run_task
                    \* call created; "none" without one and once a terminal Task's
                    \* call has returned
    \* ---- graph/graph.py : the State channels and the superstep runtime ----
    subgoal_plan,   \* statuses of the plan's subgoals, in plan order
    plan_ids,       \* the ids of the plan's subgoals, in plan order
    generated,      \* number of ids generate_id has returned in this run
    complete_subgoals_by_ids,   \* subgoals proposed as complete, by position; 0 is
                                \* an id that belongs to no subgoal of the plan
    locked_app_package,     \* task.request.locked_app_package, NoLock when unset
    focused_app_info,       \* the foreground package the Contextor last observed
    contextor_calls,        \* the device calls the Contextor made in its last run
    structured_decisions,       \* TRUE when decisions are present (a non-empty string)
    last_message,   \* executor_messages[-1]: none / ai_tools / ai_text / tool
    active,         \* nodes triggered for the next superstep
    conv_pending,   \* the deferred node convergence has been triggered
    step,           \* the runtime's superstep counter
    max_steps,      \* task.request.max_steps, given as recursion_limit
    gstatus,        \* pending / done / out_of_steps / error
    task_status,    \* Task.status: running / completed / failed
    ran,            \* nodes executed by the last superstep
    node_execs,     \* node executions so far
    planner_runs,   \* Planner executions so far
    forked,         \* Cortex has returned decisions together with completed ids
    presented,      \* the decisions in the state were presented to the Executor
    stale_seen,     \* the Executor was presented decisions a second time
    needs_replaning,    \* the Orchestrator's LLM output of the last superstep
                        \* had needs_replaning set
    dispatches,     \* ExecutorTools executions since the Executor last appended
                    \* a message
    \* ---- services/llm.py : invoke_llm_with_timeout_message ----
    llm_pc,         \* position of the coroutine in the helper
    llm_task,       \* the task of the LLM call: pending / done / failed / cancelled
    waiter_task,    \* the task of the notification timer: pending / done / cancelled
    node_cancel,    \* a cancellation request is pending for the calling coroutine
    llm_cancel,     \* a cancellation request is pending for llm_task
    waiting_msgs,   \* number of "Waiting for LLM call response..." messages logged
    cancel_seen,    \* Task.cancel() was called on the task running the helper
    \* ---- tools/mobile/*.py : one tool invocation of the Executor's message ----
    adb_client,     \* ctx.adb_client is set
    tool,           \* name of the invoked tool
    target,         \* the locators the Target of a tap provides
    tool_pc,        \* position inside the tool
    stage,          \* next locator stage of tap / next controller call of the tool
    tried,          \* locators attempted so far, with their outcome
    cmds,           \* device commands issued so far (ADB shell or bridge request)
    output_err,     \* the tool's `output` holds an error
    selector_info,  \* the locator description the tool puts in its message
    tool_msgs,      \* tool-result messages returned for executor_messages
    package,        \* package id found by find_package
    cancel_processed, \* CancelledError was raised in the task running the tool
    late_cmds,      \* a device command was issued after that
    \* ---- services/llm.py : with_fallback ----
    wf_pc,          \* position inside with_fallback
    none_should_fallback,   \* the argument of that name
    main_out,       \* how main_call ended: pending / value / none / raise
    main_calls,     \* number of main_call() invocations
    fallback_calls, \* number of fallback_call() invocations
    wf_result,      \* what with_fallback returned: pending / value / none
    \* ---- controllers/mobile_command_controller.py : input_text (ADB) ----
    text,           \* the text to type, a sequence of characters
    it_pc,          \* position inside input_text
    part_index,     \* parts of the text already written
    shell_cmds,     \* the shell commands issued, in order
    \* ---- controllers/types.py : PercentagesSelectorRequest.to_coords ----
    width,          \* device width
    height,         \* device height
    requests,       \* two requests, the first with the smaller percentages
    coords,         \* the coordinates to_coords returned for them, in order
    \* ---- _get_ui_element and find_element_by_text ----
    ui_hierarchy,   \* the hierarchy searched: a list of elements
    lookup,         \* the call: function name, resource_id, text, index
    lookup_result,  \* whether the call returned, and the element it returned
                    \* as a one-element sequence, <<>> for None
    \* ---- mobile-control-flutter/backend : ConnectionManager ----
    ws_pc,              \* position of each client's websocket_endpoint coroutine
    active_connections, \* self.active_connections
    is_running,         \* self.is_running
    screen_update_task, \* self.screen_update_task: a loop task, or NoLoop (None)
    loop_pc             \* position of each start_screen_updates task

lockVars == <<task_lock, current_task>>
callerVars == <<cpc, cres>>
taskVars == <<tpc, tres, must_cancel>>
localVars == <<exc, snapshot, output>>
extractVars == <<structured, extract_failed>>
streamVars == <<gstep, partial, graph_started>>
finVars == <<fin_count, fin_last, tasks>>
histVars == <<overlap, missed, run_cancel, stop_sent>>

agentVars == <<cloud, lockVars, callerVars, taskVars, localVars, extractVars,
               streamVars, finVars, histVars>>

idVars == <<plan_ids, generated>>
observeVars == <<locked_app_package, focused_app_info, contextor_calls>>

stateVars == <<subgoal_plan, complete_subgoals_by_ids, structured_decisions,
               last_message, idVars, observeVars>>
runtimeVars == <<active, conv_pending, step, max_steps, gstatus, task_status>>
traceVars == <<ran, node_execs, planner_runs, forked, presented, stale_seen,
               needs_replaning, dispatches>>

graphVars == <<stateVars, runtimeVars, traceVars>>

llmVars == <<llm_pc, llm_task, waiter_task, node_cancel, llm_cancel, waiting_msgs,
             cancel_seen>>

toolVars == <<adb_client, tool, target, tool_pc, stage, tried, cmds, output_err,
              selector_info, tool_msgs, package, cancel_processed, late_cmds>>

fallbackVars == <<wf_pc, none_should_fallback, main_out, main_calls, fallback_calls,
                  wf_result>>

textVars == <<text, it_pc, part_index, shell_cmds>>

coordVars == <<width, height, requests, coords>>

lookupVars == <<ui_hierarchy, lookup, lookup_result>>

wsVars == <<ws_pc, active_connections, is_running, screen_update_task, loop_pc>>

moreVars == <<lookupVars, wsVars>>

helperVars == <<fallbackVars, textVars, coordVars, moreVars>>

execVars == <<llmVars, toolVars, helperVars>>

vars == <<agentVars, graphVars, execVars>>

(* ---------------------------------------------------------------------- *)
(* sdk/agent.py : task lifecycle                                           *)
(* ---------------------------------------------------------------------- *)

NoFinalize == [cancelled |-> FALSE, error |-> FALSE, content |-> 0, state |-> 0]

\* asyncio.Task.done()
Done(t) == tpc[t] = "done"

\* a task object exists and has not finished
InFlight(t) == tpc[t] \notin {"none", "done"}

\* the awaits of _execute_task_logic that lie in the body of its try statement
TryBody == {"set_status", "stream", "extract", "fin_nostate", "fin_ok"}

\* the awaits that lie in an except handler of that try statement
Handlers == {"fin_cancel", "fin_err"}

AgentInit ==
    /\ cloud \in BOOLEAN
    /\ task_lock = NoTask
    /\ current_task = NoTask
    /\ cpc = [c \in Callers |-> "idle"]
    /\ cres = [c \in Callers |-> "none"]
    /\ tpc = [c \in Callers |-> "none"]
    /\ tres = [c \in Callers |-> "none"]
    /\ must_cancel = [c \in Callers |-> FALSE]
    /\ exc = [c \in Callers |-> "none"]
    /\ snapshot = [c \in Callers |-> 0]
    /\ output = [c \in Callers |-> 0]
    /\ structured \in BOOLEAN
    /\ extract_failed = [c \in Callers |-> FALSE]
    /\ gstep = [c \in Callers |-> 0]
    /\ partial = [c \in Callers |-> FALSE]
    /\ graph_started = [c \in Callers |-> FALSE]
    /\ fin_count = [c \in Callers |-> 0]
    /\ fin_last = [c \in Callers |-> NoFinalize]
    /\ overlap = [c \in Callers |-> NoTask]
    /\ missed = [c \in Callers |-> FALSE]
    /\ run_cancel = [c \in Callers |-> FALSE]
    /\ stop_sent = [c \in Callers |-> FALSE]
    /\ tasks = [c \in Callers |-> "none"]

\* the terminal statuses of a Task
Terminal == {"completed", "failed", "cancelled"}

\* the status Task.finalize gives the Task
final_status(error, cancelled) ==
    IF cancelled THEN "cancelled" ELSE IF error THEN "failed" ELSE "completed"

\* Task.finalize(content, state, error, cancelled) is invoked by task t
Finalize(t, content, state, error, cancelled) ==
    /\ fin_count' = [fin_count EXCEPT ![t] = @ + 1]
    /\ tasks' = [tasks EXCEPT ![t] = final_status(error, cancelled)]
    /\ fin_last' = [fin_last EXCEPT ![t] =
            [cancelled |-> cancelled, error |-> error, content |-> content,
             state |-> state]]

\* the graph execution of a task other than c's is in flight
GraphInFlight(c) ==
    \E t \in Callers \ {c} : InFlight(t) /\ graph_started[t]

\* what run_task does before `async with self._task_lock`: on the local path
\* the Task is created pending and appended to _tasks, then the trace
\* directories are made, the locked app is launched and the output files are
\* touched
Prepare(c) ==
    /\ cpc[c] = "idle"
    /\ overlap' = [overlap EXCEPT ![c] =
            IF \E t \in Callers : InFlight(t)
            THEN CHOOSE t \in Callers : InFlight(t) ELSE NoTask]
    /\ tasks' = [tasks EXCEPT ![c] = IF cloud THEN "none" ELSE "pending"]
    /\ UNCHANGED <<graphVars, execVars, extractVars, cloud, lockVars, taskVars, localVars, streamVars,
                   fin_count, fin_last, missed, run_cancel, stop_sent>>

\* Agent.run_task is called: everything before `async with self._task_lock`
RunTask(c) ==
    /\ Prepare(c)
    /\ cpc' = [cpc EXCEPT ![c] = "lock"]
    /\ UNCHANGED cres

\* Agent.run_task is called and a preparation step raises (_prepare_app_lock,
\* _validate_and_prepare_file; start_and_wait_for_ready on the cloud path)
RunTaskRaises(c) ==
    /\ Prepare(c)
    /\ cpc' = [cpc EXCEPT ![c] = "end"]
    /\ cres' = [cres EXCEPT ![c] = "err"]

\* the caller's own asyncio task is cancelled while it waits for the task lock:
\* CancelledError leaves run_task
CancelCaller(c) ==
    /\ cpc[c] = "lock"
    /\ cpc' = [cpc EXCEPT ![c] = "end"]
    /\ cres' = [cres EXCEPT ![c] = "cancelled"]
    /\ UNCHANGED <<graphVars, execVars, extractVars, cloud, lockVars, taskVars, localVars, streamVars,
                   finVars, histVars>>

\* a task lock that excludes nobody
LockFreeNotExclusive == TRUE

\* asyncio.Lock: acquire() returns only while nobody holds the lock
LockFree == task_lock = NoTask

\* self._current_task = asyncio.create_task(...); return await self._current_task
CreateTask(c) ==
    /\ current_task' = c
    /\ tpc' = [tpc EXCEPT ![c] = "created"]
    /\ cpc' = [cpc EXCEPT ![c] = "await"]

\* `async with self._task_lock:` entered, up to the first await under the lock
AcquireLock(c) ==
    /\ cpc[c] = "lock"
    /\ LockFree
    /\ task_lock' = c
    /\ IF current_task # NoTask /\ ~Done(current_task)
       THEN \* self.stop_current_task(); await self._current_task
            /\ must_cancel' = [must_cancel EXCEPT ![current_task] = TRUE]
            /\ run_cancel' = [run_cancel EXCEPT ![current_task] = TRUE]
            /\ cpc' = [cpc EXCEPT ![c] = "join"]
            /\ UNCHANGED <<current_task, tpc>>
       ELSE /\ CreateTask(c)
            /\ UNCHANGED <<must_cancel, run_cancel>>
    /\ UNCHANGED <<graphVars, execVars, extractVars, cloud, cres, tres, localVars, streamVars, finVars, overlap,
                   missed, stop_sent>>

\* leaving `async with self._task_lock:`
ReleaseLock(c) == task_lock' = IF task_lock = c THEN NoTask ELSE task_lock

\* the finished call drops its Task and its coroutine
DropTask(c) ==
    /\ tpc' = [tpc EXCEPT ![c] = "none"]
    /\ tres' = [tres EXCEPT ![c] = "none"]
    /\ must_cancel' = [must_cancel EXCEPT ![c] = FALSE]
    /\ exc' = [exc EXCEPT ![c] = "none"]
    /\ snapshot' = [snapshot EXCEPT ![c] = 0]
    /\ output' = [output EXCEPT ![c] = 0]
    /\ extract_failed' = [extract_failed EXCEPT ![c] = FALSE]
    /\ gstep' = [gstep EXCEPT ![c] = 0]
    /\ partial' = [partial EXCEPT ![c] = FALSE]
    /\ graph_started' = [graph_started EXCEPT ![c] = FALSE]
    /\ fin_count' = [fin_count EXCEPT ![c] = 0]
    /\ fin_last' = [fin_last EXCEPT ![c] = NoFinalize]
    /\ tasks' = [tasks EXCEPT ![c] = IF @ \in Terminal THEN "none" ELSE @]
    /\ run_cancel' = [run_cancel EXCEPT ![c] = FALSE]
    /\ stop_sent' = [stop_sent EXCEPT ![c] = FALSE]
    /\ overlap' = [d \in Callers |->
            IF d = c \/ overlap[d] = c THEN NoTask ELSE overlap[d]]
    /\ missed' = [d \in Callers |->
            IF d = c THEN FALSE
            ELSE IF overlap[d] = c THEN missed[d] \/ ~(run_cancel[c] \/ stop_sent[c])
            ELSE missed[d]]

\* the caller is resumed by the task it awaits under the lock
CallerResume(c) ==
    /\ cpc[c] \in {"join", "await"}
    /\ IF cpc[c] = "join"
       THEN \* try: await self._current_task / except CancelledError: pass
            /\ current_task # NoTask /\ Done(current_task)
            /\ IF tres[current_task] = "err"
               THEN \* the old task's error leaves the `async with`
                    /\ cpc' = [cpc EXCEPT ![c] = "end"]
                    /\ cres' = [cres EXCEPT ![c] = "err"]
                    /\ ReleaseLock(c)
                    /\ UNCHANGED <<current_task, tpc>>
               ELSE /\ CreateTask(c)
                    /\ UNCHANGED <<cres, task_lock>>
            /\ UNCHANGED <<tres, must_cancel, localVars, extract_failed, streamVars,
                           finVars, histVars>>
       ELSE \* return await self._current_task / finally: self._current_task = None
            /\ Done(c)
            /\ cpc' = [cpc EXCEPT ![c] = "end"]
            /\ cres' = [cres EXCEPT ![c] = tres[c]]
            /\ current_task' = NoTask
            /\ ReleaseLock(c)
            /\ DropTask(c)
    /\ UNCHANGED <<graphVars, execVars, structured, cloud>>

\* run_task has returned or raised; the host may call it again
Return(c) ==
    /\ cpc[c] = "end"
    /\ cpc' = [cpc EXCEPT ![c] = "idle"]
    /\ cres' = [cres EXCEPT ![c] = "none"]
    /\ UNCHANGED <<graphVars, execVars, extractVars, cloud, lockVars, taskVars, localVars, streamVars, finVars,
                   histVars>>

\* Agent.stop_current_task called by the host program
StopCurrentTask ==
    /\ current_task # NoTask
    /\ ~Done(current_task)
    /\ ~must_cancel[current_task] \/ ~stop_sent[current_task]
    /\ must_cancel' = [must_cancel EXCEPT ![current_task] = TRUE]
    /\ stop_sent' = [stop_sent EXCEPT ![current_task] = TRUE]
    /\ UNCHANGED <<graphVars, execVars, extractVars, cloud, lockVars, callerVars, tpc, tres, localVars, streamVars,
                   finVars, overlap, missed, run_cancel>>

\* first step of the asyncio task: a task cancelled before it ever ran gets
\* CancelledError thrown into the unstarted coroutine, so no line of it runs
TaskStart(t) ==
    /\ tpc[t] = "created"
    /\ IF must_cancel[t]
       THEN /\ tpc' = [tpc EXCEPT ![t] = "done"]
            /\ tres' = [tres EXCEPT ![t] = "cancelled"]
       ELSE /\ tpc' = [tpc EXCEPT ![t] = IF cloud THEN "cloud" ELSE "set_status"]
            /\ UNCHANGED tres
    /\ must_cancel' = [must_cancel EXCEPT ![t] = FALSE]
    /\ UNCHANGED <<graphVars, execVars, extractVars, cloud, lockVars, callerVars, localVars, streamVars, finVars,
                   histVars>>

\* a cancellation handler that re-raises without finalizing
ExceptCancelledNoFinalize(t) ==
    /\ tpc' = [tpc EXCEPT ![t] = "fin_cancel"]
    /\ exc' = [exc EXCEPT ![t] = "cancelled"]
    /\ UNCHANGED <<tres, finVars>>

\* a cancellation handler that finalizes with the flag and without an error
ExceptCancelledFlagOnly(t) ==
    /\ Finalize(t, output[t], snapshot[t], FALSE, TRUE)
    /\ tpc' = [tpc EXCEPT ![t] = "fin_cancel"]
    /\ exc' = [exc EXCEPT ![t] = "cancelled"]
    /\ UNCHANGED tres

\* `except asyncio.CancelledError:` of _execute_task_logic: finalize, then raise
ExceptCancelled(t) ==
    /\ Finalize(t, output[t], snapshot[t], TRUE, TRUE)
    /\ tpc' = [tpc EXCEPT ![t] = "fin_cancel"]
    /\ exc' = [exc EXCEPT ![t] = "cancelled"]
    /\ UNCHANGED tres

\* CancelledError is thrown at the await the task is suspended at
DeliverCancel(t) ==
    /\ tpc[t] \in TryBody \cup Handlers \cup {"tracing", "cloud"}
    /\ must_cancel[t]
    /\ must_cancel' = [must_cancel EXCEPT ![t] = FALSE]
    /\ IF tpc[t] \in TryBody
       THEN ExceptCancelled(t)
       ELSE IF tpc[t] \in Handlers
       THEN \* raised inside an except clause: only the finally clause is left
            /\ tpc' = [tpc EXCEPT ![t] = "tracing"]
            /\ exc' = [exc EXCEPT ![t] = "cancelled"]
            /\ UNCHANGED <<tres, finVars>>
       ELSE \* raised inside the finally clause, or inside _execute_cloud
            /\ tpc' = [tpc EXCEPT ![t] = "done"]
            /\ tres' = [tres EXCEPT ![t] = "cancelled"]
            /\ UNCHANGED <<exc, finVars>>
    /\ UNCHANGED <<graphVars, execVars, extractVars, cloud, lockVars, callerVars, snapshot, output, streamVars,
                   histVars>>

\* await task.set_status("running") returned: the graph's astream is entered
SetStatusDone(t) ==
    /\ tpc[t] = "set_status"
    /\ ~must_cancel[t]
    /\ tpc' = [tpc EXCEPT ![t] = "stream"]
    /\ graph_started' = [graph_started EXCEPT ![t] = TRUE]
    /\ tasks' = [tasks EXCEPT ![t] = "running"]
    /\ UNCHANGED <<graphVars, execVars, extractVars, cloud, lockVars, callerVars, tres, must_cancel, localVars, gstep,
                   partial, fin_count, fin_last, histVars>>

\* a chunk of stream mode "updates" (a node of the running superstep returned):
\* its thought is logged, nothing is stored
StreamUpdates(t) ==
    /\ tpc[t] = "stream"
    /\ ~must_cancel[t]
    /\ ~partial[t]
    /\ partial' = [partial EXCEPT ![t] = TRUE]
    /\ UNCHANGED <<graphVars, execVars, extractVars, cloud, lockVars, callerVars, taskVars, localVars, gstep,
                   graph_started, finVars, histVars>>

\* what the loop body stores of a chunk of stream mode "values"
OnValues(t, payload) == snapshot' = [snapshot EXCEPT ![t] = payload]

\* the runtime commits a superstep and streams its "values" chunk
StreamValues(t) ==
    /\ tpc[t] = "stream"
    /\ ~must_cancel[t]
    /\ gstep[t] < MaxChunks
    /\ gstep' = [gstep EXCEPT ![t] = @ + 1]
    /\ partial' = [partial EXCEPT ![t] = FALSE]
    /\ OnValues(t, gstep[t] + 1)
    /\ UNCHANGED <<graphVars, execVars, extractVars, cloud, lockVars, callerVars, taskVars, exc, output, graph_started,
                   finVars, histVars>>

\* the stream ends: `if not last_state` finalizes with an error and returns None
StreamEnd(t) ==
    /\ tpc[t] = "stream"
    /\ ~must_cancel[t]
    /\ ~partial[t]
    /\ IF snapshot[t] = 0
       THEN /\ Finalize(t, output[t], snapshot[t], TRUE, FALSE)
            /\ tpc' = [tpc EXCEPT ![t] = "fin_nostate"]
       ELSE /\ tpc' = [tpc EXCEPT ![t] = "extract"]
            /\ UNCHANGED finVars
    /\ UNCHANGED <<graphVars, execVars, extractVars, cloud, lockVars, callerVars, tres, must_cancel, localVars,
                   streamVars, histVars>>

\* `except Exception as e:` of _execute_task_logic: finalize with the error, raise
ExceptException(t) ==
    /\ Finalize(t, output[t], snapshot[t], TRUE, FALSE)
    /\ tpc' = [tpc EXCEPT ![t] = "fin_err"]
    /\ exc' = [exc EXCEPT ![t] = "err"]

\* an extraction whose failure is caught nowhere
extract_raises_always == TRUE

\* _extract_output lines 838-859: the branch for a structured output catches
\* every Exception, the other branch (record_events) catches none
extract_raises == ~structured

\* the graph (a node, the step budget) or the output extraction raises
RaiseError(t) ==
    /\ tpc[t] = "stream" \/ (tpc[t] = "extract" /\ extract_raises)
    /\ ~must_cancel[t]
    /\ ExceptException(t)
    /\ extract_failed' = [extract_failed EXCEPT ![t] = (structured /\ tpc[t] = "extract")]
    /\ UNCHANGED <<graphVars, execVars, structured, cloud, lockVars, callerVars, tres, must_cancel, snapshot, output,
                   streamVars, histVars>>

\* what _extract_output can return: the validated structured output or None
\* after a caught failure; without structured output the last thought or None
ExtractResults ==
    IF structured THEN {"value", "failed"} ELSE {"value", "none"}

\* _extract_output returned (None when the Outputter or the validation failed)
ExtractOutput(t) ==
    /\ tpc[t] = "extract"
    /\ ~must_cancel[t]
    /\ \E r \in ExtractResults :
        LET o == IF r = "value" THEN 1 ELSE 0 IN
        /\ output' = [output EXCEPT ![t] = o]
        /\ extract_failed' = [extract_failed EXCEPT ![t] = (r = "failed")]
        /\ Finalize(t, o, snapshot[t], FALSE, FALSE)
    /\ tpc' = [tpc EXCEPT ![t] = "fin_ok"]
    /\ UNCHANGED <<graphVars, execVars, structured, cloud, lockVars, callerVars, tres, must_cancel, exc, snapshot,
                   streamVars, histVars>>

\* an awaited Task.finalize returned: return or re-raise through the finally
FinalizeDone(t) ==
    /\ tpc[t] \in {"fin_nostate", "fin_ok"} \cup Handlers
    /\ ~must_cancel[t]
    /\ tpc' = [tpc EXCEPT ![t] = "tracing"]
    /\ exc' = [exc EXCEPT ![t] = IF tpc[t] \in Handlers THEN @ ELSE "ok"]
    /\ UNCHANGED <<graphVars, execVars, extractVars, cloud, lockVars, callerVars, tres, must_cancel, snapshot, output,
                   streamVars, finVars, histVars>>

\* `finally: await self._finalize_tracing(...)` returned: the task is done
TracingDone(t) ==
    /\ tpc[t] = "tracing"
    /\ ~must_cancel[t]
    /\ tpc' = [tpc EXCEPT ![t] = "done"]
    /\ tres' = [tres EXCEPT ![t] = exc[t]]
    /\ UNCHANGED <<graphVars, execVars, extractVars, cloud, lockVars, callerVars, must_cancel, localVars, streamVars,
                   finVars, histVars>>

\* _execute_cloud: the cloud run ended completed, or failed / cancelled remotely
CloudDone(t) ==
    /\ tpc[t] = "cloud"
    /\ ~must_cancel[t]
    /\ tpc' = [tpc EXCEPT ![t] = "done"]
    /\ \E r \in {"ok", "err"} : tres' = [tres EXCEPT ![t] = r]
    /\ UNCHANGED <<graphVars, execVars, extractVars, cloud, lockVars, callerVars, must_cancel, localVars, streamVars,
                   finVars, histVars>>

AgentNext ==
    \/ \E c \in Callers : RunTask(c)
    \/ \E c \in Callers : AcquireLock(c)
    \/ \E c \in Callers : CallerResume(c)
    \/ \E c \in Callers : Return(c)
    \/ StopCurrentTask
    \/ \E t \in Callers : TaskStart(t)
    \/ \E t \in Callers : DeliverCancel(t)
    \/ \E t \in Callers : SetStatusDone(t)
    \/ \E t \in Callers : StreamUpdates(t)
    \/ \E t \in Callers : StreamValues(t)
    \/ \E t \in Callers : StreamEnd(t)
    \/ \E t \in Callers : RaiseError(t)
    \/ \E t \in Callers : ExtractOutput(t)
    \/ \E t \in Callers : FinalizeDone(t)
    \/ \E t \in Callers : TracingDone(t)
    \/ \E t \in Callers : CloudDone(t)

\* the graph of the lifecycle model is the abstract stream above; the graph
\* model's variables rest
GraphIdle ==
    /\ subgoal_plan = <<>>
    /\ plan_ids = <<>>
    /\ generated = 0
    /\ locked_app_package = "none"
    /\ focused_app_info = "none"
    /\ contextor_calls = {}
    /\ complete_subgoals_by_ids = {}
    /\ structured_decisions = FALSE
    /\ last_message = "none"
    /\ active = {}
    /\ conv_pending = FALSE
    /\ step = 0
    /\ max_steps = 0
    /\ gstatus = "idle"
    /\ task_status = "idle"
    /\ ran = {}
    /\ node_execs = 0
    /\ planner_runs = 0
    /\ forked = FALSE
    /\ presented = FALSE
    /\ stale_seen = FALSE
    /\ needs_replaning = FALSE
    /\ dispatches = 0

\* with_fallback is not called
FallbackIdle ==
    /\ wf_pc = "idle"
    /\ none_should_fallback = FALSE
    /\ main_out = "pending"
    /\ main_calls = 0
    /\ fallback_calls = 0
    /\ wf_result = "pending"

\* input_text is not called
TextIdle ==
    /\ text = <<>>
    /\ it_pc = "idle"
    /\ part_index = 0
    /\ shell_cmds = <<>>

\* to_coords is not called
CoordsIdle ==
    /\ width = 1
    /\ height = 1
    /\ requests = <<>>
    /\ coords = <<>>

\* no element is looked up
LookupIdle ==
    /\ ui_hierarchy = <<>>
    /\ lookup = [fn |-> "none", resource_id |-> "None", text |-> "None",
                 index |-> 0]
    /\ lookup_result = [done |-> FALSE, found |-> <<>>]

\* none of the helpers is called
\* the control backend right after start: no client, no screen-update task
WebsocketIdle ==
    /\ ws_pc = [w \in 1..MaxClients |-> "closed"]
    /\ active_connections = {}
    /\ is_running = FALSE
    /\ screen_update_task = 0
    /\ loop_pc = [l \in 1..MaxLoops |-> "none"]

HelpersIdle == FallbackIdle /\ TextIdle /\ CoordsIdle /\ LookupIdle /\ WebsocketIdle

\* the Executor node and its tools rest
NodeIdle ==
    /\ llm_pc = "idle"
    /\ llm_task = "none"
    /\ waiter_task = "none"
    /\ node_cancel = FALSE
    /\ llm_cancel = FALSE
    /\ waiting_msgs = 0
    /\ cancel_seen = FALSE
    /\ adb_client = FALSE
    /\ tool = "none"
    /\ target = {}
    /\ tool_pc = "idle"
    /\ stage = 0
    /\ tried = <<>>
    /\ cmds = <<>>
    /\ output_err = FALSE
    /\ selector_info = "N/A"
    /\ tool_msgs = <<>>
    /\ package = "none"
    /\ cancel_processed = FALSE
    /\ late_cmds = FALSE

\* no node of the graph is executing and no helper is called
ExecIdle == NodeIdle /\ HelpersIdle

\* an Agent after init(): no task has been run
LifecycleInit == AgentInit /\ GraphIdle /\ ExecIdle

SpecAgent == LifecycleInit /\ [][AgentNext]_vars

\* the lifecycle with run_task calls that fail before they reach the task lock
CallsNext ==
    \/ AgentNext
    \/ \E c \in Callers : RunTaskRaises(c)
    \/ \E c \in Callers : CancelCaller(c)

SpecCalls == LifecycleInit /\ [][CallsNext]_vars

\* the steps of the asyncio task t, which the event loop runs when they are
\* ready
TaskStep(t) ==
    \/ TaskStart(t)
    \/ DeliverCancel(t)
    \/ SetStatusDone(t)
    \/ StreamValues(t)
    \/ StreamEnd(t)
    \/ RaiseError(t)
    \/ ExtractOutput(t)
    \/ FinalizeDone(t)
    \/ TracingDone(t)
    \/ CloudDone(t)

\* the event loop runs every task and every caller that is ready, and the
\* asyncio.Lock wakes its waiters in turn
FairSpecCalls ==
    /\ SpecCalls
    /\ \A c \in Callers :
          /\ SF_vars(AcquireLock(c))
          /\ WF_vars(CallerResume(c))
          /\ WF_vars(Return(c))
          /\ WF_vars(TaskStep(c))

(* ---------------------------------------------------------------------- *)
(* agents/planner/utils.py : subgoal helpers                               *)
(* A plan is a sequence of statuses with the sequence of its ids beside    *)
(* it; a set of ids of the current plan is kept as the set of positions.   *)
(* ---------------------------------------------------------------------- *)

Statuses == {"NotStarted", "Running", "Success", "Failure"}

Ids(p) == 1..Len(p)

\* an id that belongs to no subgoal of the plan (an earlier plan's, or invented)
ForeignId == 0

nothing_started(p) == \A i \in Ids(p) : p[i] = "NotStarted"

all_completed(p) == \A i \in Ids(p) : p[i] = "Success"

one_of_them_is_failure(p) == \E i \in Ids(p) : p[i] = "Failure"

\* the first Running subgoal's id, or ForeignId standing for None
get_current_subgoal(p) ==
    IF \E i \in Ids(p) : p[i] = "Running"
    THEN CHOOSE i \in Ids(p) : p[i] = "Running" /\ \A j \in 1..(i - 1) : p[j] # "Running"
    ELSE ForeignId

get_subgoals_by_ids(p, ids) == {i \in Ids(p) : i \in ids}

start_next_subgoal(p) ==
    IF \E i \in Ids(p) : p[i] = "NotStarted"
    THEN LET n == CHOOSE i \in Ids(p) :
                    p[i] = "NotStarted" /\ \A j \in 1..(i - 1) : p[j] # "NotStarted"
         IN [p EXCEPT ![n] = "Running"]
    ELSE p

fail_current_subgoal(p) ==
    IF get_current_subgoal(p) = ForeignId THEN p
    ELSE [p EXCEPT ![get_current_subgoal(p)] = "Failure"]

CompleteSubgoalsByIds(p, ids) ==
    [i \in Ids(p) |-> IF i \in ids THEN "Success" ELSE p[i]]

(* ---------------------------------------------------------------------- *)
(* The agent nodes: the update each returns for the state it was given     *)
(* ---------------------------------------------------------------------- *)

Nodes == {"planner", "orchestrator", "contextor", "cortex", "executor",
          "executor_tools", "summarizer", "convergence"}

\* a Planner whose subgoals may carry any status
PlannerNodeAnyStatus == UNION {[1..n -> Statuses] : n \in 0..MaxPlan}

\* PlannerNode.__call__: the plans it may return, one NotStarted subgoal per
\* entry of the LLM response; a response without subgoals gives the empty plan
PlannerNode == {[i \in 1..n |-> "NotStarted"] : n \in 0..MaxPlan}

\* generate_id, called once per subgoal of the response in response order:
\* the ids of a plan of n subgoals when g ids were generated before
generate_ids(g, n) == [i \in 1..n |-> g + i]

\* task.request.locked_app_package when the task has none
NoLock == "none"

\* the package a task is locked to, when it is locked
LockedApp == "app"

\* the packages that can be in the foreground: the task's app or another one
Apps == {LockedApp, "other"}

\* ContextorNode.__call__, lines 24-26: the device calls it makes
ContextorCalls ==
    {"get_screen_data", "get_current_foreground_package", "get_device_date"}

\* ContextorNode.__call__, lines 25 and 32: focused_app_info is whatever
\* package is in the foreground
ContextorNode == Apps

\* orchestrator._get_state_update with complete_subgoals_by_ids cleared only
\* when the plan is written
get_state_update_keep(p, ids, update_plan) ==
    [subgoal_plan |-> p, update_plan |-> update_plan, clears_ids |-> update_plan]

\* orchestrator._get_state_update
get_state_update(p, ids, update_plan) ==
    [subgoal_plan |-> p, update_plan |-> update_plan, clears_ids |-> TRUE]

\* what the Orchestrator's LLM may answer for plan p
OrchestratorOutput(p) ==
    [needs_replaning : BOOLEAN, completed_subgoal_ids : SUBSET (0..Len(p))]

\* lines 91-95 without the test on the current subgoal: the next subgoal is
\* always started
advance_always(q, cur, completed) == start_next_subgoal(q)

\* orchestrator.py lines 91-95: start the next subgoal only when the current
\* one is among the completed ids
advance(q, cur, completed) ==
    IF cur \notin completed THEN q ELSE start_next_subgoal(q)

\* an Orchestrator that applies the completed ids before it looks at
\* needs_replaning
OrchestratorDecideCompleting(p, ids, r) ==
    LET q == CompleteSubgoalsByIds(p, r.completed_subgoal_ids) IN
    IF r.needs_replaning
    THEN get_state_update(fail_current_subgoal(q), ids, TRUE)
    ELSE IF all_completed(q)
         THEN get_state_update(q, ids, TRUE)
         ELSE get_state_update(advance(q, get_current_subgoal(p),
                                       r.completed_subgoal_ids), ids, TRUE)

\* orchestrator.py lines 76-98: the update for LLM response r
OrchestratorDecide(p, ids, r) ==
    IF r.needs_replaning
    THEN get_state_update(fail_current_subgoal(p), ids, TRUE)
    ELSE LET q == CompleteSubgoalsByIds(p, r.completed_subgoal_ids) IN
         IF all_completed(q)
         THEN get_state_update(q, ids, TRUE)
         ELSE get_state_update(advance(q, get_current_subgoal(p),
                                       r.completed_subgoal_ids), ids, TRUE)

\* an Orchestrator that asks its LLM also when no subgoal is to be examined
OrchestratorNodeAlwaysAsks(p, ids) ==
    IF nothing_started(p) \/ get_current_subgoal(p) = ForeignId
    THEN {get_state_update(start_next_subgoal(p), ids, TRUE)}
    ELSE {OrchestratorDecide(p, ids, r) : r \in OrchestratorOutput(p)}

\* OrchestratorNode.__call__: the updates it may return
OrchestratorNode(p, ids) ==
    IF nothing_started(p) \/ get_current_subgoal(p) = ForeignId
    THEN {get_state_update(start_next_subgoal(p), ids, TRUE)}
    ELSE IF get_subgoals_by_ids(p, ids) = {}
         THEN {get_state_update(p, ids, FALSE)}
         ELSE {OrchestratorDecide(p, ids, r) : r \in OrchestratorOutput(p)}

\* orchestrator.py lines 75-80: update ou is the one returned for an LLM
\* output with needs_replaning set
Replanning(p, ids, ou) ==
    /\ ~(nothing_started(p) \/ get_current_subgoal(p) = ForeignId)
    /\ get_subgoals_by_ids(p, ids) # {}
    /\ \E r \in OrchestratorOutput(p) :
          r.needs_replaning /\ ou = OrchestratorDecide(p, ids, r)

\* CortexNode: decisions (present or absent) and the ids it proposes as complete
CortexNode(p) ==
    [structured_decisions : BOOLEAN,
     complete_subgoals_by_ids : SUBSET (0..Len(p))]

\* ExecutorNode.__call__: with decisions, the LLM's message (with or without
\* tool calls) is appended to executor_messages; without, nothing is
ExecutorNode(decisions) ==
    IF ~decisions THEN {"unchanged"} ELSE {"ai_tools", "ai_text"}

(* ---------------------------------------------------------------------- *)
(* graph/graph.py : routing                                                *)
(* ---------------------------------------------------------------------- *)

post_orchestrator_gate(p) ==
    IF one_of_them_is_failure(p) THEN "replan"
    ELSE IF all_completed(p) THEN "end"
    ELSE IF get_current_subgoal(p) = ForeignId THEN "end"
    ELSE "continue"

\* post_cortex_gate that returns a single route
post_cortex_gate_single(ids, decisions) ==
    IF ids # {} \/ ~decisions THEN {"review_subgoals"} ELSE {"continue"}

\* post_cortex_gate that reviews only when ids were proposed
post_cortex_gate_ids_only(ids, decisions) ==
    (IF ids # {} THEN {"review_subgoals"} ELSE {})
        \cup (IF decisions THEN {"continue"} ELSE {})

post_cortex_gate(ids, decisions) ==
    (IF ids # {} \/ ~decisions THEN {"review_subgoals"} ELSE {})
        \cup (IF decisions THEN {"continue"} ELSE {})

\* post_executor_gate that looks for tool calls in any message of the list
post_executor_gate_any(msg) ==
    IF msg \in {"ai_tools", "tool"} THEN "invoke_tools" ELSE "skip"

post_executor_gate(msg) ==
    IF msg = "ai_tools" THEN "invoke_tools" ELSE "skip"

\* convergence_gate that ends as soon as no subgoal is left to start
convergence_gate_none_left(p) ==
    IF \A i \in Ids(p) : p[i] # "NotStarted" THEN "end" ELSE "continue"

convergence_gate(p) ==
    IF all_completed(p) THEN "end" ELSE "continue"

\* a path_map that sends convergence's "continue" to the Executor
PathMapToExecutor(n, route) ==
    CASE n = "orchestrator" /\ route = "continue" -> {"contextor"}
      [] n = "orchestrator" /\ route = "replan" -> {"planner"}
      [] n = "cortex" /\ route = "continue" -> {"executor"}
      [] n = "cortex" /\ route = "review_subgoals" -> {"orchestrator"}
      [] n = "executor" /\ route = "invoke_tools" -> {"executor_tools"}
      [] n = "executor" /\ route = "skip" -> {"summarizer"}
      [] n = "convergence" /\ route = "continue" -> {"executor"}
      [] OTHER -> {}

\* path_map of the conditional edges leaving node n; END is no node
PathMap(n, route) ==
    CASE n = "orchestrator" /\ route = "continue" -> {"contextor"}
      [] n = "orchestrator" /\ route = "replan" -> {"planner"}
      [] n = "cortex" /\ route = "continue" -> {"executor"}
      [] n = "cortex" /\ route = "review_subgoals" -> {"orchestrator"}
      [] n = "executor" /\ route = "invoke_tools" -> {"executor_tools"}
      [] n = "executor" /\ route = "skip" -> {"summarizer"}
      [] n = "convergence" /\ route = "continue" -> {"contextor"}
      [] OTHER -> {}

\* the unconditional edges without the one from orchestrator to convergence
EdgesGateOnly(n) ==
    CASE n = "planner" -> {"orchestrator"}
      [] n = "contextor" -> {"cortex"}
      [] n = "executor_tools" -> {"summarizer"}
      [] n = "summarizer" -> {"convergence"}
      [] OTHER -> {}

\* add_edge: the unconditional edges leaving node n
Edges(n) ==
    CASE n = "planner" -> {"orchestrator"}
      [] n = "contextor" -> {"cortex"}
      [] n = "executor_tools" -> {"summarizer"}
      [] n = "summarizer" -> {"convergence"}
      [] n = "orchestrator" -> {"convergence"}
      [] OTHER -> {}

\* add_node(..., defer=True)
Deferred == {"convergence"}

\* the updates node n may return in this superstep; a node that does not run
\* returns none
Returned(n, updates) == IF n \in active THEN updates ELSE {"none"}

\* the nodes that the nodes of this superstep trigger, each gate reading the
\* state with its own node's update applied
Triggered(pu, ou, cu, eu) ==
    LET orchPlan == IF ou.update_plan THEN ou.subgoal_plan ELSE subgoal_plan
        execMsg == IF eu = "unchanged" THEN last_message ELSE eu
        routed(n) ==
            CASE n = "orchestrator" -> PathMap(n, post_orchestrator_gate(orchPlan))
              [] n = "cortex" ->
                    UNION {PathMap(n, r) :
                            r \in post_cortex_gate(cu.complete_subgoals_by_ids,
                                                   cu.structured_decisions)}
              [] n = "executor" -> PathMap(n, post_executor_gate(execMsg))
              [] n = "convergence" -> PathMap(n, convergence_gate(subgoal_plan))
              [] OTHER -> {}
    IN UNION {Edges(n) \cup routed(n) : n \in active}

\* a recursion limit one above the request's max_steps
recursion_limit_plus_one(n) == n + 1

\* agent.py line 535: "recursion_limit": task.request.max_steps
recursion_limit(n) == n

\* the recursion-limit test made only after the superstep was run
out_of_steps_late == step > recursion_limit(max_steps) + 1

\* the runtime's recursion-limit test, made before a superstep is prepared
out_of_steps == step > recursion_limit(max_steps)

GraphInit ==
    /\ subgoal_plan = <<>>
    /\ plan_ids = <<>>
    /\ generated = 0
    /\ locked_app_package \in {NoLock, LockedApp}
    /\ focused_app_info = "none"
    /\ contextor_calls = {}
    /\ complete_subgoals_by_ids = {}
    /\ structured_decisions = FALSE
    /\ last_message = "none"
    /\ active = {"planner"}
    /\ conv_pending = FALSE
    /\ step = 1
    /\ max_steps \in 1..MaxSteps
    /\ gstatus = "pending"
    /\ task_status = "running"
    /\ ran = {}
    /\ node_execs = 0
    /\ planner_runs = 0
    /\ forked = FALSE
    /\ presented = FALSE
    /\ stale_seen = FALSE
    /\ needs_replaning = FALSE
    /\ dispatches = 0

\* one superstep: every triggered node runs on the same state, the updates are
\* merged, and the nodes of the next superstep are triggered
Superstep ==
    /\ gstatus = "pending"
    /\ ~out_of_steps
    /\ active # {}
    /\ \E pu \in Returned("planner", PlannerNode),
          ou \in Returned("orchestrator",
                          OrchestratorNode(subgoal_plan, complete_subgoals_by_ids)),
          cu \in Returned("cortex", CortexNode(subgoal_plan)),
          eu \in Returned("executor", ExecutorNode(structured_decisions)) :
        LET orchWrites == "orchestrator" \in active /\ ou.update_plan
            orchClears == "orchestrator" \in active /\ ou.clears_ids
            next == Triggered(pu, ou, cu, eu)
            quiet == next \ Deferred = {}
            conv == conv_pending \/ (next \cap Deferred # {})
        IN  /\ subgoal_plan' =
                    IF "planner" \in active THEN pu
                    ELSE IF orchWrites THEN ou.subgoal_plan
                    ELSE subgoal_plan
            /\ plan_ids' =
                    IF "planner" \in active THEN generate_ids(generated, Len(pu))
                    ELSE plan_ids
            /\ generated' =
                    IF "planner" \in active THEN generated + Len(pu) ELSE generated
            /\ IF "contextor" \in active
               THEN /\ focused_app_info' \in ContextorNode
                    /\ contextor_calls' = ContextorCalls
               ELSE UNCHANGED <<focused_app_info, contextor_calls>>
            /\ complete_subgoals_by_ids' =
                    IF orchClears THEN {}
                    ELSE IF "cortex" \in active THEN cu.complete_subgoals_by_ids
                    ELSE complete_subgoals_by_ids
            /\ structured_decisions' =
                    IF "cortex" \in active THEN cu.structured_decisions
                    ELSE structured_decisions
            /\ last_message' =
                    IF "executor_tools" \in active THEN "tool"
                    ELSE IF "executor" \in active /\ eu # "unchanged" THEN eu
                    ELSE last_message
            /\ active' = IF quiet /\ conv THEN Deferred ELSE next \ Deferred
            /\ conv_pending' = (~quiet /\ conv)
            /\ gstatus' = IF "planner" \in active /\ orchWrites THEN "error" ELSE gstatus
            /\ forked' = (forked \/ ("cortex" \in active /\ cu.structured_decisions
                                     /\ cu.complete_subgoals_by_ids # {}))
            /\ presented' =
                    IF "cortex" \in active THEN FALSE
                    ELSE IF "executor" \in active /\ structured_decisions THEN TRUE
                    ELSE presented
            /\ stale_seen' = (stale_seen \/ ("executor" \in active
                                /\ structured_decisions /\ presented))
            /\ needs_replaning' =
                    ("orchestrator" \in active
                        /\ Replanning(subgoal_plan, complete_subgoals_by_ids, ou))
            /\ dispatches' =
                    IF "executor" \in active /\ eu # "unchanged" THEN 0
                    ELSE IF "executor_tools" \in active THEN dispatches + 1
                    ELSE dispatches
    /\ step' = step + 1
    /\ ran' = active
    /\ node_execs' = node_execs + Cardinality(active)
    /\ planner_runs' = planner_runs + (IF "planner" \in active THEN 1 ELSE 0)
    /\ UNCHANGED <<agentVars, execVars, max_steps, task_status, locked_app_package>>

\* a node raises (an LLM or device call fails): astream raises the exception
NodeRaises ==
    /\ gstatus = "pending"
    /\ ~out_of_steps
    /\ active # {}
    /\ gstatus' = "error"
    /\ UNCHANGED <<agentVars, execVars, stateVars, active, conv_pending, step, max_steps,
                   task_status, traceVars>>

\* no node is triggered: the run reached END
GraphEnd ==
    /\ gstatus = "pending"
    /\ ~out_of_steps
    /\ active = {}
    /\ gstatus' = "done"
    /\ UNCHANGED <<agentVars, execVars, stateVars, active, conv_pending, step, max_steps,
                   task_status, traceVars>>

\* the step budget is used up: astream raises GraphRecursionError
RecursionLimit ==
    /\ gstatus = "pending"
    /\ out_of_steps
    /\ gstatus' = "out_of_steps"
    /\ UNCHANGED <<agentVars, execVars, stateVars, active, conv_pending, step, max_steps,
                   task_status, traceVars>>

\* agent.py _execute_task_logic after the stream: when the stream ended the
\* output is extracted and the task finalized with it, unless the extraction
\* raises; when the stream raised the task is finalized with the error
FinalizeRun ==
    /\ gstatus # "pending"
    /\ task_status = "running"
    /\ task_status' \in IF gstatus = "done" THEN {"completed", "failed"} ELSE {"failed"}
    /\ UNCHANGED <<agentVars, execVars, stateVars, active, conv_pending, step, max_steps,
                   gstatus, traceVars>>

GraphNext ==
    \/ Superstep
    \/ NodeRaises
    \/ GraphEnd
    \/ RecursionLimit
    \/ FinalizeRun

\* the Agent of the lifecycle model is not exercised by the graph model
AgentIdle ==
    /\ cloud = FALSE
    /\ task_lock = NoTask
    /\ current_task = NoTask
    /\ cpc = [c \in Callers |-> "idle"]
    /\ cres = [c \in Callers |-> "none"]
    /\ tpc = [c \in Callers |-> "none"]
    /\ tres = [c \in Callers |-> "none"]
    /\ must_cancel = [c \in Callers |-> FALSE]
    /\ exc = [c \in Callers |-> "none"]
    /\ snapshot = [c \in Callers |-> 0]
    /\ output = [c \in Callers |-> 0]
    /\ structured = FALSE
    /\ extract_failed = [c \in Callers |-> FALSE]
    /\ gstep = [c \in Callers |-> 0]
    /\ partial = [c \in Callers |-> FALSE]
    /\ graph_started = [c \in Callers |-> FALSE]
    /\ fin_count = [c \in Callers |-> 0]
    /\ fin_last = [c \in Callers |-> NoFinalize]
    /\ overlap = [c \in Callers |-> NoTask]
    /\ missed = [c \in Callers |-> FALSE]
    /\ run_cancel = [c \in Callers |-> FALSE]
    /\ stop_sent = [c \in Callers |-> FALSE]
    /\ tasks = [c \in Callers |-> "none"]

\* a task run: the graph is about to take its first superstep
RunInit == GraphInit /\ AgentIdle /\ ExecIdle

SpecGraph == RunInit /\ [][GraphNext]_vars

\* the runtime takes its steps, and the agent finalizes, as long as they can
FairSpecGraph == SpecGraph /\ WF_vars(GraphNext)

(* ---------------------------------------------------------------------- *)
(* services/llm.py : invoke_llm_with_timeout_message, called by a node      *)
(* (executor.py line 66) whose task may be cancelled                        *)
(* ---------------------------------------------------------------------- *)

\* the awaits of invoke_llm_with_timeout_message
LlmAwaits == {"wait", "await_llm"}

\* lines 45-46: both tasks are created, then asyncio.wait is awaited
LlmInit ==
    /\ llm_pc = "wait"
    /\ llm_task = "pending"
    /\ waiter_task = "pending"
    /\ node_cancel = FALSE
    /\ llm_cancel = FALSE
    /\ waiting_msgs = 0
    /\ cancel_seen = FALSE

\* the LLM call ends with a response or with an error
LlmCallEnds ==
    /\ UNCHANGED <<waiting_msgs, cancel_seen>>
    /\ UNCHANGED <<agentVars, graphVars, toolVars, helperVars>>
    /\ llm_task = "pending"
    /\ ~llm_cancel
    /\ \E r \in {"done", "failed"} : llm_task' = r
    /\ UNCHANGED <<llm_pc, waiter_task, node_cancel, llm_cancel>>

\* CancelledError is thrown into the LLM call's task
LlmCallCancelled ==
    /\ UNCHANGED <<waiting_msgs, cancel_seen>>
    /\ UNCHANGED <<agentVars, graphVars, toolVars, helperVars>>
    /\ llm_task = "pending"
    /\ llm_cancel
    /\ llm_task' = "cancelled"
    /\ llm_cancel' = FALSE
    /\ UNCHANGED <<llm_pc, waiter_task, node_cancel>>

\* a timer that cancels the call it times, as asyncio.wait_for does
TimerFiresAndCancels ==
    /\ UNCHANGED <<waiting_msgs, cancel_seen>>
    /\ UNCHANGED <<agentVars, graphVars, toolVars, helperVars>>
    /\ waiter_task = "pending"
    /\ waiter_task' = "done"
    /\ llm_cancel' = (llm_task = "pending")
    /\ UNCHANGED <<llm_pc, llm_task, node_cancel>>

\* asyncio.sleep(timeout_seconds) returns
TimerFires ==
    /\ UNCHANGED <<waiting_msgs, cancel_seen>>
    /\ UNCHANGED <<agentVars, graphVars, toolVars, helperVars>>
    /\ waiter_task = "pending"
    /\ waiter_task' = "done"
    /\ UNCHANGED <<llm_pc, llm_task, node_cancel, llm_cancel>>

\* what awaiting the finished llm_task gives the helper's caller
LlmResult == CASE llm_task = "done" -> "returned"
               [] llm_task = "failed" -> "raised"
               [] OTHER -> "cancelled"

\* lines 48-57: asyncio.wait returned with the first finished task
WaitReturns ==
    /\ UNCHANGED <<agentVars, graphVars, toolVars, helperVars>>
    /\ llm_pc = "wait"
    /\ ~node_cancel
    /\ llm_task # "pending" \/ waiter_task = "done"
    /\ IF llm_task # "pending"
       THEN /\ waiter_task' = IF waiter_task = "pending" THEN "cancelled" ELSE waiter_task
            /\ llm_pc' = LlmResult
       ELSE /\ llm_pc' = "await_llm"
            /\ UNCHANGED waiter_task
    /\ waiting_msgs' = IF llm_task # "pending" THEN waiting_msgs ELSE waiting_msgs + 1
    /\ UNCHANGED cancel_seen
    /\ UNCHANGED <<llm_task, node_cancel, llm_cancel>>

\* line 57: `return await llm_task` resumes
AwaitLlmReturns ==
    /\ UNCHANGED <<waiting_msgs, cancel_seen>>
    /\ UNCHANGED <<agentVars, graphVars, toolVars, helperVars>>
    /\ llm_pc = "await_llm"
    /\ ~node_cancel
    /\ llm_task # "pending"
    /\ llm_pc' = LlmResult
    /\ UNCHANGED <<llm_task, waiter_task, node_cancel, llm_cancel>>

\* Task.cancel() on the node's task while it is inside the helper: a task that
\* awaits another task hands the request to it; one that awaits asyncio.wait
\* only has its own wait cancelled
CancelInHelper ==
    /\ UNCHANGED <<agentVars, graphVars, toolVars, helperVars>>
    /\ llm_pc \in LlmAwaits
    /\ ~node_cancel
    /\ ~llm_cancel
    /\ IF llm_pc = "await_llm" /\ llm_task = "pending"
       THEN llm_cancel' = TRUE /\ UNCHANGED node_cancel
       ELSE node_cancel' = TRUE /\ UNCHANGED llm_cancel
    /\ cancel_seen' = TRUE
    /\ UNCHANGED waiting_msgs
    /\ UNCHANGED <<llm_pc, llm_task, waiter_task>>

\* CancelledError is raised at the helper's await and leaves the helper
HelperCancelled ==
    /\ UNCHANGED <<waiting_msgs, cancel_seen>>
    /\ UNCHANGED <<agentVars, graphVars, toolVars, helperVars>>
    /\ llm_pc \in LlmAwaits
    /\ node_cancel
    /\ llm_pc' = "cancelled"
    /\ node_cancel' = FALSE
    /\ UNCHANGED <<llm_task, waiter_task, llm_cancel>>

(* ---------------------------------------------------------------------- *)
(* tools/mobile/*.py and controllers/mobile_command_controller.py :        *)
(* one tool invocation and the device commands it issues                   *)
(* ---------------------------------------------------------------------- *)

Tools == {"tap", "long_press_on", "swipe", "input_text", "open_link", "back",
          "press_key", "stop_app", "erase_one_char", "launch_app"}

\* tools declared with `def`; the others are declared with `async def`
SyncTools == {"tap", "long_press_on", "swipe", "input_text"}

\* the order in which get_tap_tool.tap goes through the locators
LocatorOrder == <<"resource_id", "coordinates", "text">>

Locators == {LocatorOrder[i] : i \in 1..Len(LocatorOrder)}

Rank(l) == CHOOSE i \in 1..Len(LocatorOrder) : LocatorOrder[i] = l

Packages == {"pkgA", "pkgB"}

\* the controller operations a tool other than tap and input_text calls, in
\* order
ToolOps(t) ==
    CASE t = "tap" -> <<"tap">>
      [] t = "long_press_on" -> <<"long_press">>
      [] t = "swipe" -> <<"swipe">>
      [] t = "open_link" -> <<"open_link">>
      [] t = "back" -> <<"back">>
      [] t = "press_key" -> <<"press_key">>
      [] t = "stop_app" -> <<"stop_app">>
      [] t = "erase_one_char" -> <<"erase">>
      [] OTHER -> <<"launch_app">>

\* the backend a controller operation sends its command to
Via(op) ==
    IF op = "stop_app" THEN "bridge"
    ELSE IF adb_client THEN "adb" ELSE "bridge"

\* what a controller operation can give its caller: None ("ok"), an error
\* value ("error") or an exception ("raise")
Outcomes(op, via) ==
    IF via = "bridge" THEN {"ok", "error", "raise"}
    ELSE IF op \in {"tap", "long_press"} THEN {"ok", "error"}
    ELSE IF op = "launch_app" THEN {"ok", "error", "raise"}
    ELSE {"ok", "raise"}

\* a device command leaves for the device
Issue(op, via, out, arg) ==
    /\ cmds' = Append(cmds, [op |-> op, via |-> via, out |-> out, arg |-> arg])
    /\ late_cmds' = (late_cmds \/ cancel_processed)

\* the Executor's response carries a tool call and the tool starts
ToolStart ==
    /\ UNCHANGED <<agentVars, graphVars, llmVars, helperVars>>
    /\ llm_pc = "returned"
    /\ tool_pc = "idle"
    /\ \E t \in Tools, tg \in SUBSET Locators :
          /\ tool' = t
          /\ target' = IF t \in {"tap", "input_text"} THEN tg ELSE {}
          /\ tool_pc' = IF t = "launch_app" THEN "list"
                        ELSE IF t = "input_text" THEN "focus_id" ELSE "run"
    /\ stage' = 1
    /\ output_err' = TRUE
    /\ UNCHANGED <<adb_client, tried, cmds, selector_info, tool_msgs, package,
                   cancel_processed, late_cmds>>

\* the one locator tap_android uses
tap_android_locator(tg) ==
    IF "coordinates" \in tg THEN "coordinates"
    ELSE IF "resource_id" \in tg THEN "resource_id"
    ELSE IF "text" \in tg THEN "text" ELSE "none"

\* tap.py tap_android: the tap tool when an ADB client exists
TapAndroid ==
    /\ UNCHANGED <<agentVars, graphVars, llmVars, helperVars>>
    /\ tool = "tap"
    /\ adb_client
    /\ tool_pc = "run"
    /\ LET loc == tap_android_locator(target) IN
       IF loc = "none"
       THEN /\ output_err' = TRUE
            /\ selector_info' = "N/A"
            /\ UNCHANGED <<tried, cmds, late_cmds>>
       ELSE \E found \in (IF loc = "coordinates" THEN {TRUE} ELSE BOOLEAN) :
               /\ selector_info' = loc
               /\ IF found
                  THEN \E out \in {"ok", "error"} :
                          /\ Issue("tap", "adb", out, "-")
                          /\ tried' = Append(tried, [loc |-> loc, ok |-> (out = "ok")])
                          /\ output_err' = (out # "ok")
                  ELSE /\ tried' = Append(tried, [loc |-> loc, ok |-> FALSE])
                       /\ output_err' = TRUE
                       /\ UNCHANGED <<cmds, late_cmds>>
    /\ tool_pc' = "return"
    /\ UNCHANGED <<adb_client, tool, target, stage, tool_msgs, package, cancel_processed>>

\* tap.py get_tap_tool.tap, one of its three numbered blocks
TapStage ==
    /\ UNCHANGED <<agentVars, graphVars, llmVars, helperVars>>
    /\ tool = "tap"
    /\ ~adb_client
    /\ tool_pc = "run"
    /\ stage \in 1..Len(LocatorOrder)
    /\ LET loc == LocatorOrder[stage] IN
       IF loc \in target /\ output_err
       THEN \E out \in Outcomes("tap", "bridge") :
               /\ Issue("tap", "bridge", out, "-")
               /\ tried' = Append(tried, [loc |-> loc, ok |-> (out = "ok")])
               /\ output_err' = (out # "ok")
               /\ selector_info' = IF out = "ok" THEN loc ELSE selector_info
       ELSE UNCHANGED <<tried, cmds, late_cmds, output_err, selector_info>>
    /\ stage' = stage + 1
    /\ tool_pc' = IF stage = Len(LocatorOrder) THEN "return" ELSE "run"
    /\ UNCHANGED <<adb_client, tool, target, tool_msgs, package, cancel_processed>>

\* the positions inside the input_text tool
InputTextPcs == {"focus_id", "focus_other", "unfocused", "cursor", "type", "requery"}

\* utils.py lines 134-171, the resource_id part of focus_element_if_needed:
\* the element of that id is looked up and dropped when its text differs from
\* the target's; when not focused it is tapped and looked up again
FocusById ==
    /\ UNCHANGED <<agentVars, graphVars, llmVars, helperVars>>
    /\ tool = "input_text"
    /\ tool_pc = "focus_id"
    /\ IF "resource_id" \notin target
       THEN /\ tool_pc' = "focus_other"
            /\ UNCHANGED <<tried, cmds, late_cmds, selector_info>>
       ELSE \E elt_from_id \in BOOLEAN, focused \in BOOLEAN :
              IF ~elt_from_id
              THEN /\ tool_pc' = "focus_other"
                   /\ UNCHANGED <<tried, cmds, late_cmds, selector_info>>
              ELSE IF focused
              THEN /\ tool_pc' = "cursor"
                   /\ selector_info' = "resource_id"
                   /\ UNCHANGED <<tried, cmds, late_cmds>>
              ELSE \E out \in Outcomes("tap", Via("tap")), focused_now \in BOOLEAN :
                      /\ Issue("tap", Via("tap"), out, "focus")
                      /\ tried' = Append(tried, [loc |-> "resource_id",
                                                 ok |-> (out = "ok")])
                      /\ tool_pc' = IF out = "raise" THEN "raised"
                                    ELSE IF focused_now THEN "cursor"
                                    ELSE "focus_other"
                      /\ selector_info' = IF out # "raise" /\ focused_now
                                          THEN "resource_id" ELSE selector_info
    /\ UNCHANGED <<adb_client, tool, target, stage, output_err, tool_msgs, package,
                   cancel_processed>>

\* utils.py lines 173-204, the rest of focus_element_if_needed: a tap on the
\* coordinates, else on the element found by text when it has bounds, else None
FocusOther ==
    /\ UNCHANGED <<agentVars, graphVars, llmVars, helperVars>>
    /\ tool = "input_text"
    /\ tool_pc = "focus_other"
    /\ LET loc == IF "coordinates" \in target THEN "coordinates"
                  ELSE IF "text" \in target THEN "text" ELSE "none"
       IN \E found \in (IF loc = "text" THEN BOOLEAN
                         ELSE IF loc = "coordinates" THEN {TRUE} ELSE {FALSE}) :
             IF ~found
             THEN /\ tool_pc' = "unfocused"
                  /\ UNCHANGED <<tried, cmds, late_cmds, selector_info>>
             ELSE \E out \in Outcomes("tap", Via("tap")) :
                     /\ Issue("tap", Via("tap"), out, "focus")
                     /\ tried' = Append(tried, [loc |-> loc, ok |-> (out = "ok")])
                     /\ tool_pc' = IF out = "raise" THEN "raised" ELSE "cursor"
                     /\ selector_info' = IF out = "raise" THEN selector_info ELSE loc
    /\ UNCHANGED <<adb_client, tool, target, stage, output_err, tool_msgs, package,
                   cancel_processed>>

\* input_text.py lines 73-91: focus_element_if_needed returned None, the tool
\* returns its error message
FocusFails ==
    /\ UNCHANGED <<agentVars, graphVars, llmVars, helperVars>>
    /\ tool = "input_text"
    /\ tool_pc = "unfocused"
    /\ output_err' = TRUE
    /\ tool_pc' = "return"
    /\ UNCHANGED <<adb_client, tool, target, stage, tried, cmds, selector_info,
                   tool_msgs, package, cancel_processed, late_cmds>>

\* input_text.py line 93, utils.py lines 89-125: move_cursor_to_end_if_bounds
\* taps the bottom right of the element found by resource_id, else of the
\* coordinates, else of the element found by text; without element or
\* bounds it taps nothing
MoveCursor ==
    /\ UNCHANGED <<agentVars, graphVars, llmVars, helperVars>>
    /\ tool = "input_text"
    /\ tool_pc = "cursor"
    /\ \E bounds \in (IF "resource_id" \in target THEN BOOLEAN
                       ELSE IF "coordinates" \in target THEN {TRUE}
                       ELSE IF "text" \in target THEN BOOLEAN ELSE {FALSE}) :
          IF ~bounds
          THEN /\ tool_pc' = "type"
               /\ UNCHANGED <<cmds, late_cmds>>
          ELSE \E out \in Outcomes("tap", Via("tap")) :
                  /\ Issue("tap", Via("tap"), out, "cursor")
                  /\ tool_pc' = IF out = "raise" THEN "raised" ELSE "type"
    /\ UNCHANGED <<adb_client, tool, target, stage, tried, output_err, selector_info,
                   tool_msgs, package, cancel_processed>>

\* a re-query whatever the target and the result of typing
requery_always(ok, tg) == TRUE

\* input_text.py line 99: status == "success" and target.resource_id
requery(ok, tg) == ok /\ "resource_id" \in tg

\* input_text.py lines 95-96: the controller types the text
TypeText ==
    /\ UNCHANGED <<agentVars, graphVars, llmVars, helperVars>>
    /\ tool = "input_text"
    /\ tool_pc = "type"
    /\ \E out \in Outcomes("input_text", Via("input_text")) :
          /\ Issue("input_text", Via("input_text"), out, "-")
          /\ output_err' = (out # "ok")
          /\ tool_pc' = IF out = "raise" THEN "raised"
                        ELSE IF requery(out = "ok", target) THEN "requery"
                        ELSE "return"
    /\ UNCHANGED <<adb_client, tool, target, stage, tried, selector_info, tool_msgs,
                   package, cancel_processed>>

\* input_text.py lines 100-108: the screen data are fetched again and the
\* field's text is read from them
Requery ==
    /\ UNCHANGED <<agentVars, graphVars, llmVars, helperVars>>
    /\ tool = "input_text"
    /\ tool_pc = "requery"
    /\ \E out \in {"ok", "raise"} :
          tool_pc' = IF out = "raise" THEN "raised" ELSE "return"
    /\ UNCHANGED <<adb_client, tool, target, stage, tried, cmds, output_err,
                   selector_info, tool_msgs, package, cancel_processed, late_cmds>>

\* launch_app.py line 25: list_packages runs a shell command for the package list
ListPackages ==
    /\ UNCHANGED <<agentVars, graphVars, llmVars, helperVars>>
    /\ tool_pc = "list"
    /\ \E out \in {"ok", "raise"} :
          /\ Issue("list_packages", IF adb_client THEN "adb" ELSE "host", out, "-")
          /\ tool_pc' = IF out = "raise" THEN "raised" ELSE "hopper"
    /\ UNCHANGED <<adb_client, tool, target, stage, tried, output_err, selector_info,
                   tool_msgs, package, cancel_processed>>

\* a launch that goes on without a package
package_found_always(p) == TRUE

package_found(p) == p # "none"

\* launch_app.py lines 26-36 and 50-58: the Hopper call resumes with a package,
\* with none, or with an exception that find_package turns into none
Hopper ==
    /\ UNCHANGED <<agentVars, graphVars, llmVars, helperVars>>
    /\ tool_pc = "hopper"
    /\ \E p \in Packages \cup {"none"} :
          /\ package' = p
          /\ tool_pc' = IF package_found(p) THEN "run" ELSE "return"
    /\ output_err' = TRUE
    /\ UNCHANGED <<adb_client, tool, target, stage, tried, cmds, selector_info,
                   tool_msgs, cancel_processed, late_cmds>>

\* a tool other than tap and input_text calls its next controller operation
ControllerCall ==
    /\ UNCHANGED <<agentVars, graphVars, llmVars, helperVars>>
    /\ tool \in Tools \ {"tap", "input_text"}
    /\ tool_pc = "run"
    /\ stage \in 1..Len(ToolOps(tool))
    /\ LET op == ToolOps(tool)[stage]
           last == stage = Len(ToolOps(tool))
       IN \E out \in Outcomes(op, Via(op)) :
             /\ Issue(op, Via(op), out, IF op = "launch_app" THEN package ELSE "-")
             /\ tool_pc' = IF out = "raise" THEN "raised"
                           ELSE IF last THEN "return" ELSE "run"
             /\ output_err' = IF last THEN out # "ok" ELSE output_err
    /\ stage' = stage + 1
    /\ UNCHANGED <<adb_client, tool, target, tried, selector_info, tool_msgs,
                   package, cancel_processed>>

\* the text of the tool-result message, as far as the claims read it
MessageNames ==
    CASE tool = "tap" -> selector_info
      [] tool = "launch_app" /\ ~package_found(package) -> "Package not found"
      [] OTHER -> "-"

\* the tool builds its ToolMessage and returns its Command; the result of a
\* tool whose task is already cancelled has no receiver
ToolReturn ==
    /\ UNCHANGED <<agentVars, graphVars, llmVars, helperVars>>
    /\ tool_pc = "return"
    /\ IF cancel_processed
       THEN /\ tool_pc' = "discarded"
            /\ UNCHANGED tool_msgs
       ELSE /\ tool_pc' = "done"
            /\ tool_msgs' = Append(tool_msgs,
                                   [status |-> IF output_err THEN "error" ELSE "success",
                                    names |-> MessageNames])
    /\ UNCHANGED <<adb_client, tool, target, stage, tried, cmds, output_err,
                   selector_info, package, cancel_processed, late_cmds>>

\* the positions at which CancelledError can be raised in the task running the
\* tool: an `async def` tool is interrupted at its awaits (the Hopper call,
\* asanitize_update); a `def` tool runs while the task awaits its result
Cancellable(t) ==
    IF t \in SyncTools THEN {"run", "return"} \cup InputTextPcs
    ELSE {"hopper", "return"}

\* the task is cancelled during the tool: the coroutine of an `async def` tool
\* is abandoned at its await, the body of a `def` tool goes on
ToolCancelled ==
    /\ UNCHANGED <<agentVars, graphVars, llmVars, helperVars>>
    /\ tool_pc \in Cancellable(tool)
    /\ ~cancel_processed
    /\ cancel_processed' = TRUE
    /\ tool_pc' = IF tool \in SyncTools THEN tool_pc ELSE "cancelled"
    /\ UNCHANGED <<adb_client, tool, target, stage, tried, cmds, output_err,
                   selector_info, tool_msgs, package, late_cmds>>

\* one step of the Executor node: inside the helper, then inside the tool
ExecutorNext ==
    \/ LlmCallEnds
    \/ LlmCallCancelled
    \/ TimerFires
    \/ WaitReturns
    \/ AwaitLlmReturns
    \/ CancelInHelper
    \/ HelperCancelled
    \/ ToolStart
    \/ TapAndroid
    \/ TapStage
    \/ FocusById
    \/ FocusOther
    \/ FocusFails
    \/ MoveCursor
    \/ TypeText
    \/ Requery
    \/ ListPackages
    \/ Hopper
    \/ ControllerCall
    \/ ToolReturn
    \/ ToolCancelled

\* the Executor node has called the helper; no tool has run
ExecutorInit ==
    /\ LlmInit
    /\ adb_client \in BOOLEAN
    /\ tool = "none"
    /\ target = {}
    /\ tool_pc = "idle"
    /\ stage = 0
    /\ tried = <<>>
    /\ cmds = <<>>
    /\ output_err = FALSE
    /\ selector_info = "N/A"
    /\ tool_msgs = <<>>
    /\ package = "none"
    /\ cancel_processed = FALSE
    /\ late_cmds = FALSE
    /\ HelpersIdle
    /\ AgentIdle
    /\ GraphIdle

SpecExecutor == ExecutorInit /\ [][ExecutorNext]_vars

(* ---------------------------------------------------------------------- *)
(* services/llm.py : with_fallback                                          *)
(* ---------------------------------------------------------------------- *)

\* line 222: main_call() is invoked and awaited
WithFallbackInit ==
    /\ wf_pc = "main"
    /\ none_should_fallback \in BOOLEAN
    /\ main_out = "pending"
    /\ main_calls = 1
    /\ fallback_calls = 0
    /\ wf_result = "pending"

\* lines 222-226: main_call returned; a None result falls back when asked to
MainReturns ==
    /\ wf_pc = "main"
    /\ \E r \in {"value", "none"} :
          /\ main_out' = r
          /\ IF r = "none" /\ none_should_fallback
             THEN /\ fallback_calls' = fallback_calls + 1
                  /\ wf_pc' = "fallback_in_try"
                  /\ UNCHANGED wf_result
             ELSE /\ wf_pc' = "returned"
                  /\ wf_result' = r
                  /\ UNCHANGED fallback_calls
    /\ UNCHANGED <<none_should_fallback, main_calls>>
    /\ UNCHANGED <<agentVars, graphVars, llmVars, toolVars, textVars, coordVars,
                   moreVars>>

\* lines 227-229: main_call raised an Exception; the handler calls fallback_call
MainRaises ==
    /\ wf_pc = "main"
    /\ main_out' = "raise"
    /\ fallback_calls' = fallback_calls + 1
    /\ wf_pc' = "fallback_in_except"
    /\ UNCHANGED <<none_should_fallback, main_calls, wf_result>>
    /\ UNCHANGED <<agentVars, graphVars, llmVars, toolVars, textVars, coordVars,
                   moreVars>>

\* lines 225 and 229: the awaited fallback_call returned; its result is returned
FallbackReturns ==
    /\ wf_pc \in {"fallback_in_try", "fallback_in_except"}
    /\ \E r \in {"value", "none"} : wf_result' = r
    /\ wf_pc' = "returned"
    /\ UNCHANGED <<none_should_fallback, main_out, main_calls, fallback_calls>>
    /\ UNCHANGED <<agentVars, graphVars, llmVars, toolVars, textVars, coordVars,
                   moreVars>>

\* where an Exception of fallback_call goes: line 225 lies in the try body, so
\* the handler of line 227 catches it; line 229 lies in the handler itself
after_fallback_error(pc) ==
    IF pc = "fallback_in_try" THEN "fallback_in_except" ELSE "raised"

\* the awaited fallback_call raised an Exception
FallbackRaises ==
    /\ wf_pc \in {"fallback_in_try", "fallback_in_except"}
    /\ wf_pc' = after_fallback_error(wf_pc)
    /\ fallback_calls' = IF wf_pc' = "fallback_in_except"
                         THEN fallback_calls + 1 ELSE fallback_calls
    /\ UNCHANGED <<none_should_fallback, main_out, main_calls, wf_result>>
    /\ UNCHANGED <<agentVars, graphVars, llmVars, toolVars, textVars, coordVars,
                   moreVars>>

(* ---------------------------------------------------------------------- *)
(* controllers/mobile_command_controller.py : input_text, the ADB branch    *)
(* ---------------------------------------------------------------------- *)

\* the characters of a text: a letter, the two characters of "%s", newline, tab
Chars == {"a", "%", "s", "\n", "\t"}

Texts == UNION {[1..n -> Chars] : n \in 0..MaxText}

\* index of the first "%s" in t, 0 when there is none
FindSep(t) ==
    LET hits == {k \in 1..(Len(t) - 1) : t[k] = "%" /\ t[k + 1] = "s"}
    IN IF hits = {} THEN 0 ELSE CHOOSE k \in hits : \A h \in hits : k <= h

RECURSIVE split(_)
\* text.split("%s")
split(t) ==
    LET k == FindSep(t)
    IN IF k = 0 THEN <<t>>
       ELSE <<SubSeq(t, 1, k - 1)>> \o split(SubSeq(t, k + 2, Len(t)))

\* lines 478-484: the payload written for part i
to_write(parts, i) ==
    (IF i > 1 THEN <<"s">> ELSE <<>>) \o parts[i]
        \o (IF i < Len(parts) THEN <<"%">> ELSE <<>>)

\* input_text is called with an ADB client
InputTextInit ==
    /\ text \in Texts
    /\ it_pc = "run"
    /\ part_index = 0
    /\ shell_cmds = <<>>

\* lines 478-487: one turn of the loop, device.shell(["input", "text", to_write])
ShellInputText ==
    /\ it_pc = "run"
    /\ part_index < Len(split(text))
    /\ shell_cmds' = Append(shell_cmds,
                            [kind |-> "text",
                             payload |-> to_write(split(text), part_index + 1)])
    /\ part_index' = part_index + 1
    /\ \E out \in {"ok", "raise"} :
          it_pc' = IF out = "raise" THEN "raised" ELSE "run"
    /\ UNCHANGED text
    /\ UNCHANGED <<agentVars, graphVars, llmVars, toolVars, fallbackVars, coordVars,
                   moreVars>>

\* line 489: the loop is over, return None
InputTextReturns ==
    /\ it_pc = "run"
    /\ part_index = Len(split(text))
    /\ it_pc' = "done"
    /\ UNCHANGED <<text, part_index, shell_cmds>>
    /\ UNCHANGED <<agentVars, graphVars, llmVars, toolVars, fallbackVars, coordVars,
                   moreVars>>

\* a with_fallback call and an input_text call, each on its own
ServicesInit ==
    /\ WithFallbackInit
    /\ InputTextInit
    /\ CoordsIdle
    /\ LookupIdle
    /\ WebsocketIdle
    /\ NodeIdle
    /\ AgentIdle
    /\ GraphIdle

ServicesNext ==
    \/ MainReturns
    \/ MainRaises
    \/ FallbackReturns
    \/ FallbackRaises
    \/ ShellInputText
    \/ InputTextReturns

SpecServices == ServicesInit /\ [][ServicesNext]_vars

(* ---------------------------------------------------------------------- *)
(* controllers/types.py : PercentagesSelectorRequest                        *)
(* A fraction is kept as its number of hundredths.                          *)
(* ---------------------------------------------------------------------- *)

Percents == 0..MaxPercent

\* normalize, lines 34-38: a value above 1 is divided by 100, a value up to 1
\* is kept as the fraction it is
normalize(v) == IF v > 1 THEN v ELSE v * 100

\* round(n / d) of Python: to the nearest integer, a tie to the even one
round(n, d) ==
    LET q == n \div d
        r == n % d
    IN IF 2 * r < d THEN q
       ELSE IF 2 * r > d THEN q + 1
       ELSE IF q % 2 = 0 THEN q ELSE q + 1

\* to_coords, lines 44-48
to_coords(r, w, h) ==
    [x |-> round((w - 1) * normalize(r.x_percent), 100),
     y |-> round((h - 1) * normalize(r.y_percent), 100)]

\* a device size and two requests, the second with percentages at least those
\* of the first
CoordsInit ==
    /\ width \in 1..MaxDim
    /\ height \in 1..MaxDim
    /\ \E p \in Percents, q \in Percents :
          /\ p <= q
          /\ requests = <<[x_percent |-> p, y_percent |-> p],
                          [x_percent |-> q, y_percent |-> q]>>
    /\ coords = <<>>
    /\ FallbackIdle
    /\ TextIdle
    /\ LookupIdle
    /\ WebsocketIdle
    /\ NodeIdle
    /\ AgentIdle
    /\ GraphIdle

\* to_coords is called on the next request
ToCoords ==
    /\ Len(coords) < Len(requests)
    /\ coords' = Append(coords, to_coords(requests[Len(coords) + 1], width, height))
    /\ UNCHANGED <<width, height, requests>>
    /\ UNCHANGED <<agentVars, graphVars, llmVars, toolVars, fallbackVars, textVars,
                   moreVars>>

SpecCoords == CoordsInit /\ [][ToCoords]_vars

(* ---------------------------------------------------------------------- *)
(* controllers/mobile_command_controller.py : _get_ui_element              *)
(* tools/utils.py : find_element_by_text                                   *)
(* ---------------------------------------------------------------------- *)

\* an absent value: a None argument, a None result
None == "None"

\* index=None
NoIndex == 0 - 1

ResourceIds == {"id1", "id2"}

\* the texts of elements, and the text searched for in another case
ElementTexts == {"Ok", "no"}

SearchText == "oK"

\* str.lower()
lower(t) == IF t \in {"Ok", "oK", "OK"} THEN "ok" ELSE t

SeqsUpTo(S, n) == UNION {[1..k -> S] : k \in 0..n}

\* the elements of a flat hierarchy
FlatElements ==
    [resource_id : ResourceIds, text : ElementTexts, accessibilityText : ElementTexts]

\* the elements of a rich hierarchy, two levels deep
Leaves == [text : ElementTexts, children : {<<>>}]

RichElements == [text : ElementTexts, children : SeqsUpTo(Leaves, MaxElems)]

Indexes == {NoIndex} \cup 0..MaxElems

\* _get_ui_element lines 223-228: the elements appended to matches, in order
RECURSIVE matches(_, _, _)
matches(h, resource_id, txt) ==
    IF h = <<>> THEN <<>>
    ELSE LET element == Head(h)
             hit == \/ (resource_id # None /\ element.resource_id = resource_id)
                    \/ (txt # None /\ (element.text = txt
                                         \/ element.accessibilityText = txt))
         IN (IF hit THEN <<element>> ELSE <<>>) \o matches(Tail(h), resource_id, txt)

\* _get_ui_element lines 220-242: the element returned, <<>> for None
get_ui_element(h, resource_id, txt, index) ==
    IF resource_id = None /\ txt = None THEN <<>>
    ELSE LET m == matches(h, resource_id, txt)
             target_index == IF index # NoIndex THEN index ELSE 0
         IN IF m = <<>> THEN <<>>
            ELSE IF target_index >= Len(m) THEN <<>>
            ELSE <<m[target_index + 1]>>

\* find_element_by_text lines 43-61: search_recursive, <<>> for None; idx is set anew from
\* index at every matching element, and a matching element that is not
\* returned is passed over together with its children
RECURSIVE search_recursive(_, _, _)
search_recursive(elements, txt, index) ==
    IF elements = <<>> THEN <<>>
    ELSE LET element == Head(elements)
             idx == IF index = NoIndex THEN 0 ELSE index
             found == search_recursive(element.children, txt, index)
         IN IF lower(txt) = lower(element.text)
            THEN IF idx = 0 THEN <<element>>
                 ELSE search_recursive(Tail(elements), txt, index)
            ELSE IF element.children # <<>> /\ found # <<>> THEN found
                 ELSE search_recursive(Tail(elements), txt, index)

\* a call of _get_ui_element on a flat hierarchy, or of find_element_by_text
\* on a rich one
LookupInit ==
    /\ \/ /\ ui_hierarchy \in SeqsUpTo(FlatElements, MaxElems)
          /\ lookup \in [fn : {"_get_ui_element"},
                          resource_id : {None, "id1"},
                          text : {None, "Ok"},
                          index : Indexes]
       \/ /\ ui_hierarchy \in SeqsUpTo(RichElements, MaxElems)
          /\ lookup \in [fn : {"find_element_by_text"},
                          resource_id : {None},
                          text : {SearchText},
                          index : Indexes]
    /\ lookup_result = [done |-> FALSE, found |-> <<>>]
    /\ WebsocketIdle
    /\ FallbackIdle
    /\ TextIdle
    /\ CoordsIdle
    /\ NodeIdle
    /\ AgentIdle
    /\ GraphIdle

GetUiElement ==
    /\ lookup.fn = "_get_ui_element"
    /\ ~lookup_result.done
    /\ lookup_result' = [done |-> TRUE,
                         found |-> get_ui_element(ui_hierarchy, lookup.resource_id,
                                                  lookup.text, lookup.index)]
    /\ UNCHANGED <<ui_hierarchy, lookup, wsVars>>
    /\ UNCHANGED <<agentVars, graphVars, llmVars, toolVars, fallbackVars, textVars,
                   coordVars>>

FindElementByText ==
    /\ lookup.fn = "find_element_by_text"
    /\ ~lookup_result.done
    /\ lookup_result' = [done |-> TRUE,
                         found |-> search_recursive(ui_hierarchy, lookup.text,
                                                    lookup.index)]
    /\ UNCHANGED <<ui_hierarchy, lookup, wsVars>>
    /\ UNCHANGED <<agentVars, graphVars, llmVars, toolVars, fallbackVars, textVars,
                   coordVars>>

LookupNext ==
    \/ GetUiElement
    \/ FindElementByText

SpecLookup == LookupInit /\ [][LookupNext]_vars

(* ---------------------------------------------------------------------- *)
(* Claims on the task lifecycle (checked under SpecAgent)                  *)
(* ---------------------------------------------------------------------- *)

\* C1 (as claimed): when a local call of run_task made while an earlier task was in
\* flight gets its own task created, the earlier task has settled and had been
\* sent a cancellation request; the new call did not just wait for the earlier
\* task to run to its own completion.
C1_SecondRunCancelsFirst ==
    \A c \in Callers :
        (~cloud /\ tpc[c] # "none") => (overlap[c] = NoTask /\ ~missed[c])

\* C2: at most one task coroutine (the one held in _current_task) is in flight
\* at any moment, for every interleaving of run_task and stop_current_task.
C2_AtMostOneInFlight ==
    Cardinality({t \in Callers : InFlight(t)}) <= 1

\* C2 witness: a task is streaming, a stop was requested, and two other calls of
\* run_task are waiting for the task lock.
C2_Witness ==
    \E t \in Callers :
        /\ tpc[t] = "stream"
        /\ stop_sent[t]
        /\ Cardinality({c \in Callers : cpc[c] = "lock"}) >= 2

\* C3: a finished task whose graph execution was started has had Task.finalize
\* invoked, whichever terminal path it took, before run_task returns or raises.
C3_FinalizeOnEveryPath ==
    \A t \in Callers :
        (Done(t) /\ graph_started[t]) => fin_count[t] >= 1

\* C3 witness: a task that was cancelled while its graph was streaming is done
\* and was finalized by the cancellation handler.
C3_Witness ==
    \E t \in Callers :
        /\ Done(t)
        /\ graph_started[t]
        /\ tres[t] = "cancelled"
        /\ fin_count[t] = 1
        /\ fin_last[t].cancelled

\* C4 (as claimed): a local task that stop_current_task cancelled while it was in
\* flight ends finalized with the cancellation flag and the last streamed values
\* snapshot, and the cancellation is raised to the caller.
C4_StopFinalizesCancelled ==
    \A t \in Callers :
        (~cloud /\ Done(t) /\ stop_sent[t]) =>
            /\ fin_count[t] >= 1
            /\ fin_last[t].cancelled
            /\ fin_last[t].state = gstep[t]
            /\ tres[t] = "cancelled"

\* C19: when a structured output is asked for and the Outputter call or the
\* validation fails, the output is None, no exception reaches the handlers, and
\* the task is finalized with a null content and without error; an error is
\* recorded afterwards only by a cancellation.
C19_FailedExtractionIsNotAFailure ==
    \A t \in Callers :
       extract_failed[t] =>
          /\ structured
          /\ output[t] = 0
          /\ exc[t] # "err"
          /\ fin_count[t] >= 1
          /\ fin_last[t].content = 0
          /\ fin_last[t].error => fin_last[t].cancelled
          /\ tpc[t] = "fin_ok" =>
                fin_last[t] = [cancelled |-> FALSE, error |-> FALSE, content |-> 0,
                               state |-> snapshot[t]]

\* C19 witness: a task whose extraction failed has ended normally, finalized
\* once with a null content and no error.
C19_Witness ==
    \E t \in Callers :
       /\ extract_failed[t]
       /\ tpc[t] = "done"
       /\ tres[t] = "ok"
       /\ fin_count[t] = 1
       /\ ~fin_last[t].error
       /\ fin_last[t].content = 0

\* number of the three outcomes a finalize call carries
Carried(f) ==
    (IF f.content # 0 THEN 1 ELSE 0) + (IF f.error THEN 1 ELSE 0)
        + (IF f.cancelled THEN 1 ELSE 0)

\* C20 (as claimed): every finalize call carries exactly one of a non-null
\* output, an error, the cancellation flag.
C20_ExactlyOneOutcome ==
    \A t \in Callers : fin_count[t] >= 1 => Carried(fin_last[t]) = 1

\* C20 (amended): the cancellation flag is always passed together with an
\* error, and an error without the flag comes with a null output; the output
\* and the error are otherwise independent of the path.
C20_FlagOnlyWithError ==
    \A t \in Callers :
       fin_count[t] >= 1 =>
          /\ fin_last[t].cancelled => fin_last[t].error
          /\ (fin_last[t].error /\ ~fin_last[t].cancelled) => fin_last[t].content = 0

\* C20 witness: a task cancelled while its successful finalize was awaited is
\* finalized a second time, with its output, an error and the flag.
C20_Witness ==
    \E t \in Callers :
       /\ fin_count[t] = 2
       /\ fin_last[t].content = 1
       /\ fin_last[t].error
       /\ fin_last[t].cancelled

(* ---------------------------------------------------------------------- *)
(* Claims on the agent graph (checked under SpecGraph and FairSpecGraph)   *)
(* ---------------------------------------------------------------------- *)

\* supersteps the runtime has executed
Supersteps == step - 1

Running(p) == {i \in Ids(p) : p[i] = "Running"}

C7_AtMostOneRunning ==
    Cardinality(Running(subgoal_plan)) <= 1

\* C7 witness: after a replan, the Orchestrator completed one subgoal of the new
\* plan and started the next.
C7_Witness ==
    /\ planner_runs >= 2
    /\ "orchestrator" \in ran
    /\ Cardinality(Running(subgoal_plan)) = 1
    /\ \E i \in Ids(subgoal_plan) : subgoal_plan[i] = "Success"

\* C8: after a superstep in which the Orchestrator was executed, whichever
\* return path it took, complete_subgoals_by_ids is empty.
C8_IdsClearedByOrchestrator ==
    "orchestrator" \in ran => complete_subgoals_by_ids = {}

\* C8 witness: the Orchestrator ran beside the Executor, that is on ids that
\* Cortex had proposed, it left the plan with a Running subgoal, and the ids
\* are empty.
C8_Witness ==
    /\ "orchestrator" \in ran
    /\ "executor" \in ran
    /\ Running(subgoal_plan) # {}
    /\ complete_subgoals_by_ids = {}

C10_RunTerminates ==
    /\ <>(task_status # "running")
    /\ [](planner_runs >= 1 => 5 * (planner_runs - 1) < max_steps)

\* C10 witness: a run that replanned twice used up its budget and was finalized.
C10_Witness ==
    /\ planner_runs = 3
    /\ gstatus = "out_of_steps"
    /\ task_status = "failed"

\* C11 (as claimed): the Planner never commits an empty subgoal_plan, and a task
\* whose Planner got a response without subgoals is never finalized as completed.
C11_EmptyPlanNeverCommitted ==
    /\ planner_runs >= 1 => subgoal_plan # <<>>
    /\ task_status = "completed" => subgoal_plan # <<>>

(* ---------------------------------------------------------------------- *)
(* Claims on the Executor's LLM call and tools (checked under SpecExecutor) *)
(* ---------------------------------------------------------------------- *)

\* C12 (as claimed): once the cancellation has been processed by the running
\* task, no further device command is issued on its behalf, the remaining
\* commands of the tool that was executing included.
C12_NoCommandAfterCancel == ~late_cmds

\* C13 (as claimed): when the coroutine awaiting the helper has been cancelled,
\* the LLM call is not left running, before and after the notification timeout.
C13_LlmCallCancelledWithNode == llm_pc = "cancelled" => llm_task # "pending"

\* C14 (as claimed): tap attempts its locators in the order resource_id,
\* coordinates, text: nothing is attempted after a success, and a locator is
\* attempted only after every earlier provided locator was attempted and failed.
C14_TapLocatorOrder ==
    \A j \in 1..Len(tried) :
       /\ \A i \in 1..(j - 1) :
             ~tried[i].ok /\ Rank(tried[i].loc) < Rank(tried[j].loc)
       /\ \A l \in target :
             Rank(l) < Rank(tried[j].loc) => \E i \in 1..(j - 1) : tried[i].loc = l

\* every locator the tap attempted has failed
AllTriedFailed == tried # <<>> /\ \A i \in 1..Len(tried) : ~tried[i].ok

\* C15 (as claimed): when every provided locator of a tap fails, the message
\* has status error and names the locator attempted last, never a placeholder.
C15_FailureNamesLastLocator ==
    (tool = "tap" /\ tool_pc = "done" /\ AllTriedFailed)
        => tool_msgs = <<[status |-> "error", names |-> tried[Len(tried)].loc]>>

\* the device operations of the controller
ControllerOps == {"tap", "long_press", "swipe", "input_text", "erase",
                  "launch_app", "stop_app", "open_link", "back"}

\* the tool has left its body
ToolEnded == tool_pc \in {"done", "raised", "discarded", "cancelled"}

\* C16 (as claimed): a device operation goes to ADB first when an ADB client
\* exists, and to the bridge when there is none or when the ADB command failed.
C16_NativeFirstBridgeOnFailure ==
    \A i \in 1..Len(cmds) :
       cmds[i].op \in ControllerOps =>
          /\ ~adb_client => cmds[i].via = "bridge"
          /\ adb_client =>
                \/ cmds[i].via = "adb"
                \/ /\ i > 1
                   /\ cmds[i - 1].op = cmds[i].op
                   /\ cmds[i - 1].via = "adb"
                   /\ cmds[i - 1].out # "ok"
          /\ (cmds[i].via = "adb" /\ cmds[i].out # "ok" /\ ToolEnded) =>
                /\ i < Len(cmds)
                /\ cmds[i + 1].op = cmds[i].op
                /\ cmds[i + 1].via = "bridge"

\* the last device command of the tool succeeded
FinalCommandOk ==
    /\ cmds # <<>>
    /\ cmds[Len(cmds)].op # "list_packages"
    /\ cmds[Len(cmds)].out = "ok"

\* C17 (as claimed): a tool invocation returns exactly one tool-result message,
\* with status success exactly when its device command succeeded, and a failed
\* device command never leaves the tool as an exception.
C17_OneMessageNeverAnException ==
    /\ tool_pc # "raised"
    /\ tool_pc = "done" =>
          /\ Len(tool_msgs) = 1
          /\ tool_msgs[1].status = "success" <=> FinalCommandOk

\* C18: launch_app sends a launch command only for the package Hopper returned;
\* without a package it sends none and returns exactly one message, with status
\* error and the text that the package was not found.
C18_NoLaunchWithoutPackage ==
    tool = "launch_app" =>
       /\ \A i \in 1..Len(cmds) :
             cmds[i].op = "launch_app" =>
                cmds[i].arg \in Packages /\ cmds[i].arg = package
       /\ (tool_pc = "done" /\ package = "none") =>
             tool_msgs = <<[status |-> "error", names |-> "Package not found"]>>

\* C18 witness: Hopper gave no package and launch_app returned its error
\* message after the package listing alone.
C18_Witness ==
    /\ tool = "launch_app"
    /\ tool_pc = "done"
    /\ package = "none"
    /\ tool_msgs = <<[status |-> "error", names |-> "Package not found"]>>
    /\ \A i \in 1..Len(cmds) : cmds[i].op = "list_packages"

(* ---------------------------------------------------------------------- *)
(* Claims on the helpers (checked under SpecServices and SpecCoords)        *)
(* ---------------------------------------------------------------------- *)

\* C21 (as claimed): with_fallback invokes main_call once and fallback_call at
\* most once: once when main_call raised or returned None with
\* none_should_fallback, never when main_call returned a value (or None without
\* none_should_fallback); an error of fallback_call leads to no further call.
C21_FallbackAtMostOnce ==
    /\ main_calls = 1
    /\ fallback_calls <= 1
    /\ main_out = "value" => fallback_calls = 0
    /\ (main_out = "none" /\ ~none_should_fallback) => fallback_calls = 0
    /\ (main_out = "raise" \/ (main_out = "none" /\ none_should_fallback))
          => fallback_calls = 1

\* the newline and tab characters
ControlChars == {"\n", "\t"}

\* the members of set S among the elements of sequence q, in order
RECURSIVE Only(_, _)
Only(q, S) ==
    IF q = <<>> THEN <<>>
    ELSE (IF Head(q) \in S THEN <<Head(q)>> ELSE <<>>) \o Only(Tail(q), S)

\* the key events among the shell commands, as the characters they stand for
KeyEvents ==
    LET RECURSIVE Keys(_)
        Keys(q) == IF q = <<>> THEN <<>>
                   ELSE (IF Head(q).kind = "keyevent" THEN <<Head(q).payload>> ELSE <<>>)
                            \o Keys(Tail(q))
    IN Keys(shell_cmds)

\* C24 (as claimed): on the native backend no `input text` payload holds a
\* newline or a tab, and when the text has been typed an ENTER or TAB key event
\* was emitted for every newline and tab of the text, in order.
C24_NoControlCharInPayload ==
    /\ \A i \in 1..Len(shell_cmds) :
          shell_cmds[i].kind = "text" =>
             \A k \in 1..Len(shell_cmds[i].payload) :
                shell_cmds[i].payload[k] \notin ControlChars
    /\ it_pc = "done" => KeyEvents = Only(text, ControlChars)

\* C25 (as claimed): to_coords is monotonic and clamped: for integer
\* percentages p <= q in 0..100 and a width W >= 1, x(p) <= x(q) and
\* 0 <= x(p) <= W - 1, and the same for y with the height.
C25_MonotonicAndClamped ==
    /\ \A i \in 1..Len(coords) :
          /\ coords[i].x \in 0..(width - 1)
          /\ coords[i].y \in 0..(height - 1)
    /\ Len(coords) = 2 =>
          /\ coords[1].x <= coords[2].x
          /\ coords[1].y <= coords[2].y

\* C23: the helper never cancels the LLM call because of the timeout (the call
\* is cancelled only after a cancellation of the calling task), it returns the
\* call's own result or raises its own error, before as after the timeout, and
\* it logs the waiting message at most once and only after the timer expired
\* with the call unfinished (the helper then awaits the call).
C23_TimeoutOnlyNotifies ==
    /\ [](/\ (llm_task = "cancelled" \/ llm_cancel) => cancel_seen
          /\ llm_pc = "returned" => llm_task = "done"
          /\ llm_pc = "raised" => llm_task = "failed"
          /\ waiting_msgs <= 1
          /\ llm_pc = "await_llm" => waiting_msgs = 1)
    /\ [][waiting_msgs' # waiting_msgs =>
             (llm_task = "pending" /\ waiter_task = "done")]_vars

\* C23 witness: the timer expired first, the message was logged once, and the
\* helper returned the result of the call that ended later.
C23_Witness ==
    /\ llm_pc = "returned"
    /\ llm_task = "done"
    /\ waiter_task = "done"
    /\ waiting_msgs = 1
    /\ ~cancel_seen

(* ---------------------------------------------------------------------- *)
(* Claims on the graph's nodes and gates (checked under SpecGraph)         *)
(* ---------------------------------------------------------------------- *)

\* C22: when the task has a locked app package and the Contextor observed
\* another package in the foreground, the Contextor has launched the locked
\* app in that run, before Cortex runs on the observation.
C22_RelaunchOnLostFocus ==
    ("cortex" \in active /\ locked_app_package # NoLock
        /\ focused_app_info # locked_app_package)
      => "launch_app" \in contextor_calls

\* a superstep was run by this step
SuperstepTaken == step' = step + 1

\* C26: the run reaches END only with every subgoal Success; Convergence,
\* when it runs, routes to END exactly when all subgoals are Success and to
\* the Contextor in every other state.
C26_EndOnlyWhenAllSuccess ==
    /\ [](gstatus = "done" => all_completed(subgoal_plan))
    /\ [][(SuperstepTaken /\ "convergence" \in active) =>
              /\ active = {"convergence"}
              /\ UNCHANGED subgoal_plan
              /\ all_completed(subgoal_plan) => active' = {}
              /\ ~all_completed(subgoal_plan) => active' = {"contextor"}]_vars

C26_Witness ==
    /\ gstatus = "done"
    /\ ran = {"convergence"}
    /\ subgoal_plan # <<>>
    /\ all_completed(subgoal_plan)

\* C27: whenever the post-orchestrator gate yields end, Convergence is
\* triggered, and the run reaches END only from a superstep in which
\* Convergence alone ran, never from one in which the Orchestrator ran.
C27_EndOnlyThroughConvergence ==
    /\ [](gstatus = "done" => ran = {"convergence"})
    /\ [][(SuperstepTaken /\ "orchestrator" \in active
              /\ post_orchestrator_gate(subgoal_plan') = "end") =>
              /\ conv_pending' \/ active' = {"convergence"}
              /\ active' # {}]_vars

C27_Witness ==
    /\ "orchestrator" \in ran
    /\ post_orchestrator_gate(subgoal_plan) = "end"
    /\ active = {"convergence"}
    /\ subgoal_plan # <<>>

\* C28: post_cortex_gate returns a non-empty route set in every state, with
\* review_subgoals exactly when ids are proposed or decisions are absent and
\* continue exactly when decisions are present; after Cortex ran, the nodes
\* of those routes are triggered.
C28_CortexGateNeverEmpty ==
    /\ \A ids \in SUBSET (0..MaxPlan), decisions \in BOOLEAN :
          LET routes == post_cortex_gate(ids, decisions) IN
          /\ routes # {}
          /\ "review_subgoals" \in routes <=> (ids # {} \/ ~decisions)
          /\ "continue" \in routes <=> decisions
    /\ [][(SuperstepTaken /\ "cortex" \in active) =>
              LET routes == post_cortex_gate(complete_subgoals_by_ids',
                                             structured_decisions') IN
              /\ routes # {}
              /\ "review_subgoals" \in routes <=> "orchestrator" \in active'
              /\ "continue" \in routes <=> "executor" \in active']_vars

C28_Witness ==
    /\ "cortex" \in ran
    /\ ~structured_decisions
    /\ complete_subgoals_by_ids = {}
    /\ active = {"orchestrator"}

\* C29: when the Orchestrator's LLM output has needs_replaning set, the
\* Running subgoal becomes Failure and no other status changes (none becomes
\* Success), the post-orchestrator gate yields replan, the Planner is the
\* node triggered from the Orchestrator, and it runs on a plan holding a
\* Failure, which is its replan mode.
C29_ReplanningFailsCurrentAndReplans ==
    /\ [][(SuperstepTaken /\ needs_replaning') =>
              /\ get_current_subgoal(subgoal_plan) # ForeignId
              /\ subgoal_plan' = [subgoal_plan EXCEPT
                                     ![get_current_subgoal(subgoal_plan)] = "Failure"]
              /\ post_orchestrator_gate(subgoal_plan') = "replan"
              /\ "planner" \in active'
              /\ "contextor" \notin active']_vars
    /\ []((needs_replaning /\ "planner" \in active)
              => one_of_them_is_failure(subgoal_plan))

C29_Witness ==
    /\ needs_replaning
    /\ "planner" \in active
    /\ \E i \in Ids(subgoal_plan) : subgoal_plan[i] = "Success"

\* the ids generate_id has returned so far, those of all plans up to now
IssuedIds == 1..generated

\* C30: right after every Planner execution the plan holds only NotStarted
\* subgoals, one per id generated in that execution, in generation order,
\* and none of these ids was used in an earlier plan; so no Failure or
\* Success subgoal of the previous plan survives a replan.
C30_PlannerReplacesPlan ==
    /\ [][(SuperstepTaken /\ "planner" \in active) =>
              /\ nothing_started(subgoal_plan')
              /\ Len(plan_ids') = Len(subgoal_plan')
              /\ \A i \in Ids(subgoal_plan') : plan_ids'[i] \notin IssuedIds
              /\ \A i, j \in Ids(subgoal_plan') : i < j => plan_ids'[i] < plan_ids'[j]
              /\ \A i \in 1..Len(plan_ids) :
                    \A j \in Ids(subgoal_plan') : plan_ids[i] # plan_ids'[j]]_vars
    /\ [](Len(plan_ids) = Len(subgoal_plan))

C30_Witness ==
    /\ "planner" \in ran
    /\ planner_runs >= 2
    /\ subgoal_plan # <<>>
    /\ nothing_started(subgoal_plan)
    /\ generated > Len(plan_ids)

(* ---------------------------------------------------------------------- *)
(* Claims on the element lookups (checked under SpecLookup)                *)
(* ---------------------------------------------------------------------- *)

\* C31 (as claimed): with both a resource id and a text in the selector, the
\* element _get_ui_element returns has that resource id and that text.
C31_IdAndTextBothMatch ==
    (lookup.fn = "_get_ui_element"
        /\ lookup.resource_id # None /\ lookup.text # None
        /\ lookup_result.found # <<>>)
      => LET element == lookup_result.found[1] IN
         /\ element.resource_id = lookup.resource_id
         /\ \/ element.text = lookup.text
            \/ element.accessibilityText = lookup.text

\* the elements of a rich hierarchy in depth-first document order
RECURSIVE DocumentOrder(_)
DocumentOrder(elements) ==
    IF elements = <<>> THEN <<>>
    ELSE <<Head(elements)>> \o DocumentOrder(Head(elements).children)
            \o DocumentOrder(Tail(elements))

\* the elements of q whose text equals t ignoring case, in order
RECURSIVE TextMatches(_, _)
TextMatches(q, t) ==
    IF q = <<>> THEN <<>>
    ELSE (IF lower(Head(q).text) = lower(t) THEN <<Head(q)>> ELSE <<>>)
            \o TextMatches(Tail(q), t)

\* C32 (as claimed): find_element_by_text with index k returns the (k+1)-th
\* element in document order whose text equals the searched text ignoring
\* case, and None only when fewer than k+1 elements match.
C32_ReturnsKthTextMatch ==
    (lookup.fn = "find_element_by_text" /\ lookup_result.done)
      => LET k == IF lookup.index = NoIndex THEN 0 ELSE lookup.index
             m == TextMatches(DocumentOrder(ui_hierarchy), lookup.text)
         IN IF k < Len(m) THEN lookup_result.found = <<m[k + 1]>>
            ELSE lookup_result.found = <<>>

(* ---------------------------------------------------------------------- *)
(* Claims on the input_text tool (checked under SpecExecutor)              *)
(* ---------------------------------------------------------------------- *)

\* the positions in cmds of the commands with operation op and purpose arg
CmdsOf(op, arg) == {i \in 1..Len(cmds) : cmds[i].op = op /\ cmds[i].arg = arg}

\* C33: the input_text tool sends no cursor tap and no text input while
\* focus_element_if_needed has given no locator, and returns status error
\* when it gives none; otherwise the commands go in the order focus taps,
\* cursor tap, text input; and the field is re-queried only after a text
\* input that succeeded, on a target with a resource id.
C33_TypesOnlyAfterFocus ==
    tool = "input_text" =>
       /\ selector_info = "N/A" =>
             /\ CmdsOf("tap", "cursor") = {}
             /\ CmdsOf("input_text", "-") = {}
             /\ tool_pc = "done" => tool_msgs = <<[status |-> "error", names |-> "-"]>>
       /\ Cardinality(CmdsOf("tap", "cursor")) <= 1
       /\ Cardinality(CmdsOf("input_text", "-")) <= 1
       /\ \A i \in CmdsOf("tap", "focus"), j \in CmdsOf("tap", "cursor") : i < j
       /\ \A i \in CmdsOf("tap", "focus") \cup CmdsOf("tap", "cursor"),
             j \in CmdsOf("input_text", "-") : i < j
       /\ tool_pc = "requery" =>
             /\ "resource_id" \in target
             /\ cmds # <<>>
             /\ cmds[Len(cmds)].op = "input_text"
             /\ cmds[Len(cmds)].out = "ok"

\* C33 witness: the tool focused by a tap, tapped the end of the field, typed
\* with success, re-queried the field and returned a success message.
C33_Witness ==
    /\ tool = "input_text"
    /\ tool_pc = "done"
    /\ "resource_id" \in target
    /\ Len(cmds) = 3
    /\ cmds[1].arg = "focus"
    /\ cmds[2].arg = "cursor"
    /\ cmds[3].op = "input_text"
    /\ tool_msgs = <<[status |-> "success", names |-> "-"]>>

(* ---------------------------------------------------------------------- *)
(* mobile-control-flutter/backend : api/websocket.py, main.py              *)
(* ---------------------------------------------------------------------- *)

Websockets == 1..MaxClients
Loops == 1..MaxLoops
NoLoop == 0

\* ConnectionManager.disconnect: the connection is removed if it is listed,
\* and the running flag is cleared when none is left and a task was created
disconnect(conns, websocket, running, task) ==
    LET left == conns \ {websocket}
    IN  [active_connections |-> left,
         is_running |-> IF left = {} /\ task # NoLoop THEN FALSE ELSE running]

\* ConnectionManager.broadcast: the connections whose send failed are
\* disconnected after the sends
broadcast(conns, failed, running, task) ==
    [active_connections |-> conns \ failed,
     is_running |-> IF failed # {} /\ conns \ failed = {} /\ task # NoLoop
                    THEN FALSE ELSE running]

\* the start_screen_updates tasks that were started and have not returned
RunningLoops == {l \in Loops : loop_pc[l] = "sleep"}

WebsocketInit ==
    /\ WebsocketIdle
    /\ LookupIdle
    /\ FallbackIdle
    /\ TextIdle
    /\ CoordsIdle
    /\ NodeIdle
    /\ AgentIdle
    /\ GraphIdle

\* a client opens /ws: websocket_endpoint awaits manager.connect (accept)
WsConnect(w) ==
    /\ ws_pc[w] = "closed"
    /\ ws_pc' = [ws_pc EXCEPT ![w] = "accept"]
    /\ UNCHANGED <<active_connections, is_running, screen_update_task, loop_pc>>
    /\ UNCHANGED <<agentVars, graphVars, llmVars, toolVars, fallbackVars, textVars,
                   coordVars, lookupVars>>

\* accept returned: the connection is appended, and a screen-update task is
\* created when the flag is not set; the endpoint then waits for a message
WsAccepted(w) ==
    /\ ws_pc[w] = "accept"
    /\ ws_pc' = [ws_pc EXCEPT ![w] = "receive"]
    /\ active_connections' = active_connections \cup {w}
    /\ IF ~is_running
       THEN \E l \in Loops :
               /\ loop_pc[l] = "none"
               /\ \A k \in Loops : k < l => loop_pc[k] # "none"
               /\ loop_pc' = [loop_pc EXCEPT ![l] = "created"]
               /\ screen_update_task' = l
       ELSE UNCHANGED <<loop_pc, screen_update_task>>
    /\ UNCHANGED is_running
    /\ UNCHANGED <<agentVars, graphVars, llmVars, toolVars, fallbackVars, textVars,
                   coordVars, lookupVars>>

\* receive_text raises (WebSocketDisconnect or another exception): the
\* endpoint calls manager.disconnect and returns
WsDisconnect(w) ==
    /\ ws_pc[w] = "receive"
    /\ ws_pc' = [ws_pc EXCEPT ![w] = "closed"]
    /\ LET d == disconnect(active_connections, w, is_running, screen_update_task)
       IN  /\ active_connections' = d.active_connections
           /\ is_running' = d.is_running
    /\ UNCHANGED <<screen_update_task, loop_pc>>
    /\ UNCHANGED <<agentVars, graphVars, llmVars, toolVars, fallbackVars, textVars,
                   coordVars, lookupVars>>

\* one pass of the loop from its `while` test, the flag being `running`: with
\* the test true a message is broadcast and the task sleeps; with the test
\* false the flag is cleared and the task returns
LoopPass(l, running) ==
    IF running /\ active_connections # {}
    THEN /\ \E failed \in SUBSET active_connections :
              LET b == broadcast(active_connections, failed, running,
                                 screen_update_task)
              IN  /\ active_connections' = b.active_connections
                  /\ is_running' = b.is_running
         /\ loop_pc' = [loop_pc EXCEPT ![l] = "sleep"]
    ELSE /\ is_running' = FALSE
         /\ loop_pc' = [loop_pc EXCEPT ![l] = "done"]
         /\ UNCHANGED active_connections

\* the event loop runs a created task: start_screen_updates sets the flag and
\* makes its first pass
LoopStart(l) ==
    /\ loop_pc[l] = "created"
    /\ LoopPass(l, TRUE)
    /\ UNCHANGED <<ws_pc, screen_update_task>>
    /\ UNCHANGED <<agentVars, graphVars, llmVars, toolVars, fallbackVars, textVars,
                   coordVars, lookupVars>>

\* asyncio.sleep(interval) returned: the next pass
LoopWake(l) ==
    /\ loop_pc[l] = "sleep"
    /\ LoopPass(l, is_running)
    /\ UNCHANGED <<ws_pc, screen_update_task>>
    /\ UNCHANGED <<agentVars, graphVars, llmVars, toolVars, fallbackVars, textVars,
                   coordVars, lookupVars>>

\* POST /api/control/disconnect: manager.stop_screen_updates()
StopScreenUpdates ==
    /\ is_running
    /\ is_running' = FALSE
    /\ UNCHANGED <<ws_pc, active_connections, screen_update_task, loop_pc>>
    /\ UNCHANGED <<agentVars, graphVars, llmVars, toolVars, fallbackVars, textVars,
                   coordVars, lookupVars>>

WebsocketNext ==
    \/ \E w \in Websockets : WsConnect(w)
    \/ \E w \in Websockets : WsAccepted(w)
    \/ \E w \in Websockets : WsDisconnect(w)
    \/ \E l \in Loops : LoopStart(l)
    \/ \E l \in Loops : LoopWake(l)
    \/ StopScreenUpdates

SpecWebsocket == WebsocketInit /\ [][WebsocketNext]_vars

(* ---------------------------------------------------------------------- *)
(* Claims on observations, tool dispatch and completion (SpecGraph)        *)
(* ---------------------------------------------------------------------- *)

\* C34 (as claimed): the Contextor never runs in the superstep in which
\* ExecutorTools runs, and Cortex never decides while ExecutorTools runs.
C34_NoRefreshDuringTools ==
    /\ ~({"contextor", "executor_tools"} \subseteq ran)
    /\ ~({"cortex", "executor_tools"} \subseteq ran)

\* the kinds of message that can be the last of executor_messages
MessageKinds == {"none", "ai_tools", "ai_text", "tool"}

\* the longest executor_messages list examined
MaxMessages == 3

\* messages[-1] of post_executor_gate, "none" for an empty list
last_of(messages) ==
    IF messages = <<>> THEN "none" ELSE messages[Len(messages)]

\* the lists in which a tool-result or text message follows an AI message
\* with tool calls
Dispatched ==
    {ms \in SeqsUpTo(MessageKinds \ {"none"}, MaxMessages) :
        /\ Len(ms) >= 2
        /\ last_of(ms) # "ai_tools"
        /\ \E i \in 1..(Len(ms) - 1) : ms[i] = "ai_tools"}

NewSuccess(p, q) ==
    {i \in Ids(q) : q[i] = "Success" /\ (i \notin Ids(p) \/ p[i] # "Success")}

\* C39 (as claimed): a subgoal becomes Success only in an Orchestrator
\* execution that started with its id in complete_subgoals_by_ids.
C39_SuccessOnlyIfProposed ==
    [][(SuperstepTaken /\ "planner" \notin active) =>
          /\ NewSuccess(subgoal_plan, subgoal_plan') \subseteq complete_subgoals_by_ids
          /\ NewSuccess(subgoal_plan, subgoal_plan') # {} => "orchestrator" \in active]_vars

\* C39 (amended): a subgoal becomes Success only in an Orchestrator execution
\* that started with a Running subgoal and with at least one id of the plan
\* in complete_subgoals_by_ids; which subgoals become Success is up to the
\* ids the Orchestrator's LLM returns.
C39_SuccessOnlyAfterExamination ==
    [][(SuperstepTaken /\ NewSuccess(subgoal_plan, subgoal_plan') # {}) =>
          /\ "orchestrator" \in active
          /\ get_current_subgoal(subgoal_plan) # ForeignId
          /\ get_subgoals_by_ids(subgoal_plan, complete_subgoals_by_ids) # {}]_vars

\* C39 witness: the second subgoal is Success while the first is still
\* Running, so it became Success without ever having been started.
C39_Witness ==
    /\ "orchestrator" \in ran
    /\ subgoal_plan = <<"Running", "Success">>

(* ---------------------------------------------------------------------- *)
(* Claims on finalization and on overlapping run_task calls (SpecAgent)    *)
(* ---------------------------------------------------------------------- *)

\* C36 (as claimed): Task.finalize is invoked at most once per task run,
\* whatever the await a cancellation or an error arrives at.
C36_FinalizeAtMostOnce ==
    \A t \in Callers : fin_count[t] <= 1

\* C37 (as claimed): a run_task call on the local path does not run its
\* preparation steps (trace directories, launch of the locked app, output
\* files) while the graph execution of another task is in flight.
C37_NoPreparationWhileGraphRuns ==
    [][\A c \in Callers :
          (cpc[c] = "idle" /\ cpc'[c] # "idle" /\ tasks'[c] = "pending")
              => ~GraphInFlight(c)]_vars

\* C38 (as claimed): every Task created by run_task leaves status pending and
\* reaches a terminal status.
C38_EveryTaskSettles ==
    \A c \in Callers : (tasks[c] = "pending") ~> (tasks[c] \in Terminal)

(* ---------------------------------------------------------------------- *)
(* Claim on the ConnectionManager (checked under SpecWebsocket)            *)
(* ---------------------------------------------------------------------- *)

\* C40 (as claimed): at most one screen-update loop is running at any time.
C40_AtMostOneLoop ==
    Cardinality(RunningLoops) <= 1

====
